---- MODULE Spec2Model ----
(***************************************************************************)
(* HDP 2.5 stack advisor: the 'llap' queue lifecycle of the capacity       *)
(* scheduler (checkAndManageLlapQueue, checkAndStopLlapQueue) and the LLAP *)
(* sizing engine (updateLlapConfigs), driven by recommendYARNConfigurations*)
(* once per recommendation cycle.                                          *)
(*                                                                         *)
(* services       : the persisted input of a cycle (last saved configs and *)
(*                  changed-configurations)                                *)
(* hosts          : the hosts of the cluster and their NodeManagers        *)
(* configurations : the recommendations written during the latest cycle    *)
(*                  (the "pending" view; starts afresh every cycle)        *)
(* pending        : the recommendations other advisors had already written *)
(*                  when the latest cycle started                          *)
(***************************************************************************)
EXTENDS Integers, Sequences, FiniteSets, TLC

VARIABLES services, hosts, configurations, pending, outcome, lastOp, steps,
          validationItems

vars == <<services, hosts, configurations, pending, outcome, lastOp, steps,
          validationItems>>

-----------------------------------------------------------------------------
(* Bounds of the model                                                     *)

\* number of operator edits / cycles / saves in one behaviour
MaxSteps == 3

-----------------------------------------------------------------------------
(* Program constants                                                       *)

LLAP_MAX_CONCURRENCY == 32

LLAP_QUEUE_NAME == "llap"

YARN_ROOT_DEFAULT_QUEUE_NAME == "default"

HIVE_INTERACTIVE_SITE == "hive-interactive-site"

-----------------------------------------------------------------------------
(* Text of integers: capacity-scheduler values are text.  str() of Python  *)
(* is the decimal numeral; int()/float() parse it back.                    *)

StrTable ==
  <<
     "0", "1", "2", "3", "4", "5", "6", "7", "8", "9", "10", "11", "12", "13",
     "14", "15", "16", "17", "18", "19", "20", "21", "22", "23", "24", "25",
     "26", "27", "28", "29", "30", "31", "32", "33", "34", "35", "36", "37",
     "38", "39", "40", "41", "42", "43", "44", "45", "46", "47", "48", "49",
     "50", "51", "52", "53", "54", "55", "56", "57", "58", "59", "60", "61",
     "62", "63", "64", "65", "66", "67", "68", "69", "70", "71", "72", "73",
     "74", "75", "76", "77", "78", "79", "80", "81", "82", "83", "84", "85",
     "86", "87", "88", "89", "90", "91", "92", "93", "94", "95", "96", "97",
     "98", "99", "100"
  >>

\* str(n) for the percentages the queue manager formats (0..100)
Str(n) == StrTable[n + 1]

IsNumeral(s) == \E n \in 0..100 : StrTable[n + 1] = s

\* int(s) / int(float(s)) of a decimal numeral
IntOf(s) == CHOOSE n \in 0..100 : StrTable[n + 1] = s

-----------------------------------------------------------------------------
(* The capacity-scheduler property set.  A property name                    *)
(* 'yarn.scheduler.capacity.root.<queue>.<attribute>' is the pair           *)
(* <<queue, attribute>>; 'yarn.scheduler.capacity.root.<attribute>' is      *)
(* <<"root", attribute>>; <<"", "">> is the empty name that the text after  *)
(* a trailing newline parses to.  Values are text.                          *)

ROOT_QUEUES == <<"root", "queues">>

EMPTY_NAME == <<"", "">>

LlapAttributes ==
  << "user-limit-factor", "state", "ordering-policy", "minimum-user-limit-percent",
     "maximum-capacity", "capacity", "acl_submit_applications",
     "acl_administer_queue", "maximum-am-resource-percent" >>

\* the iteration order of the property dictionary (fixed for one interpreter)
KeyOrder ==
  << ROOT_QUEUES, <<"root", "capacity">>,
     <<"default", "capacity">>, <<"default", "maximum-capacity">>,
     <<"default", "state">>, <<"default", "user-limit-factor">>,
     <<"other", "capacity">>, <<"other", "maximum-capacity">>, <<"other", "state">>,
     <<"llap", "user-limit-factor">>, <<"llap", "state">>,
     <<"llap", "ordering-policy">>, <<"llap", "minimum-user-limit-percent">>,
     <<"llap", "maximum-capacity">>, <<"llap", "capacity">>,
     <<"llap", "acl_submit_applications">>, <<"llap", "acl_administer_queue">>,
     <<"llap", "maximum-am-resource-percent">>, EMPTY_NAME >>

Range(s) == { s[i] : i \in DOMAIN s }

EmptyProps == [k \in {} |-> ""]

\* prop.startswith('yarn.')
StartsWithYarn(prop) == prop # EMPTY_NAME

\* llap_queue_name in prop   (substring test on the property name)
NameHasLlap(prop) == prop[1] = LLAP_QUEUE_NAME

\* '.llap.' in prop
NameHasDotLlapDot(prop) == prop[1] = LLAP_QUEUE_NAME

\* the text of yarn.scheduler.capacity.root.queues, split(",")
SplitQueues(text) ==
  CASE text = "default"            -> <<"default">>
    [] text = "default,llap"       -> <<"default", "llap">>
    [] text = "default,other"      -> <<"default", "other">>
    [] text = "default,llap,other" -> <<"default", "llap", "other">>
    [] OTHER                       -> <<text>>

\* dictionary -> "key=value\n" lines, restricted to the names in keep
RECURSIVE LinesOf(_, _, _)
LinesOf(props, keep, i) ==
  IF i > Len(KeyOrder) THEN <<>>
  ELSE IF KeyOrder[i] \in DOMAIN props /\ KeyOrder[i] \in keep
       THEN << <<KeyOrder[i], props[KeyOrder[i]]>> >> \o LinesOf(props, keep, i + 1)
       ELSE LinesOf(props, keep, i + 1)

\* "\n"-separated text -> dictionary: split('\n'), partition("="), last one wins
RECURSIVE ParseLines(_)
ParseLines(lines) ==
  IF lines = <<>> THEN EmptyProps
  ELSE LET n    == Len(lines)
           rest == ParseLines(SubSeq(lines, 1, n - 1))
           key  == lines[n][1]
       IN  [k \in (DOMAIN rest) \cup {key} |-> IF k = key THEN lines[n][2] ELSE rest[k]]

\* (capacity_scheduler_properties, received_as_key_value_pair)
getCapacitySchedulerProperties(svc) ==
  IF svc.capSched.blob # <<>>
  THEN [props |-> ParseLines(svc.capSched.blob), kv |-> FALSE]
  ELSE IF Cardinality(DOMAIN svc.capSched.flat) > 1
       THEN [props |-> svc.capSched.flat, kv |-> TRUE]
       ELSE [props |-> EmptyProps, kv |-> TRUE]

\* leaf queue names: the children of root (one scheduling level)
getAllYarnLeafQueues(props) ==
  IF ROOT_QUEUES \in DOMAIN props /\ props[ROOT_QUEUES] # ""
  THEN Range(SplitQueues(props[ROOT_QUEUES]))
  ELSE {}

-----------------------------------------------------------------------------
(* The property store.  A property is <<configType, name>>; numeric values *)
(* and text values are kept in separate maps.                               *)

Has(store, key) == key \in DOMAIN store

PutIn(store, key, value) ==
  [k \in (DOMAIN store) \cup {key} |-> IF k = key THEN value ELSE store[k]]

\* putProperty(configurations, configType, services)(name, value), numeric value
putNum(cfg, configType, name, value) ==
  [cfg EXCEPT !.num = PutIn(cfg.num, <<configType, name>>, value)]

\* putProperty(configurations, configType, services)(name, value), text value
putStr(cfg, configType, name, value) ==
  [cfg EXCEPT !.str = PutIn(cfg.str, <<configType, name>>, value)]

\* putPropertyAttribute(configurations, configType)(name, attribute, value)
putAttrNum(cfg, configType, name, attribute, value) ==
  [cfg EXCEPT !.attrNum = PutIn(cfg.attrNum, <<configType, name, attribute>>, value)]

putAttrStr(cfg, configType, name, attribute, value) ==
  [cfg EXCEPT !.attrStr = PutIn(cfg.attrStr, <<configType, name, attribute>>, value)]

\* putCapSchedProperty(prop, value): one flat capacity-scheduler property
putCapSched(cfg, prop, value) ==
  [cfg EXCEPT !.capSched.flat = PutIn(cfg.capSched.flat, prop, value)]

\* putCapSchedProperty("capacity-scheduler", text): the one-blob property
putCapSchedBlob(cfg, lines) ==
  [cfg EXCEPT !.capSched.blob = lines]

-----------------------------------------------------------------------------
(* Property names                                                          *)

YARN_MIN_ALLOC == <<"yarn-site", "yarn.scheduler.minimum-allocation-mb">>
YARN_NM_MEM    == <<"yarn-site", "yarn.nodemanager.resource.memory-mb">>
YARN_NM_VCORES == <<"yarn-site", "yarn.nodemanager.resource.cpu-vcores">>
HIVE_TEZ_CONTAINER == <<"hive-site", "hive.tez.container.size">>
HIVE_USER      == <<"hive-env", "hive_user">>
LLAP_QUEUE_CAPACITY == <<"hive-interactive-env", "llap_queue_capacity">>
ENABLE_HIVE_INTERACTIVE == <<"hive-interactive-env", "enable_hive_interactive">>
NUM_LLAP_NODES == <<"hive-interactive-env", "num_llap_nodes">>
NUM_LLAP_NODES_COPY == <<"hive-interactive-env", "num_llap_nodes_copy">>
LLAP_HEAP_SIZE == <<"hive-interactive-env", "llap_heap_size">>
SLIDER_AM_SIZE == <<"hive-interactive-env", "slider_am_container_size">>
DAEMON_QUEUE_NAME == <<HIVE_INTERACTIVE_SITE, "hive.llap.daemon.queue.name">>
TEZ_DEFAULT_QUEUES == <<HIVE_INTERACTIVE_SITE, "hive.server2.tez.default.queues">>
SESSIONS_PER_QUEUE == <<HIVE_INTERACTIVE_SITE, "hive.server2.tez.sessions.per.default.queue">>
DAEMON_CONTAINER_MB == <<HIVE_INTERACTIVE_SITE, "hive.llap.daemon.yarn.container.mb">>
DAEMON_CONTAINER_MB_COPY == <<HIVE_INTERACTIVE_SITE, "hive.llap.daemon.yarn.container.mb_copy">>
DAEMON_NUM_EXECUTORS == <<HIVE_INTERACTIVE_SITE, "hive.llap.daemon.num.executors">>
DAEMON_NUM_EXECUTORS_COPY == <<HIVE_INTERACTIVE_SITE, "hive.llap.daemon.num.executors_copy">>
IO_THREADPOOL_SIZE == <<HIVE_INTERACTIVE_SITE, "hive.llap.io.threadpool.size">>
IO_MEMORY_SIZE == <<HIVE_INTERACTIVE_SITE, "hive.llap.io.memory.size">>
IO_MEMORY_SIZE_COPY == <<HIVE_INTERACTIVE_SITE, "hive.llap.io.memory.size_copy">>
IO_ENABLED == <<HIVE_INTERACTIVE_SITE, "hive.llap.io.enabled">>
TEZ_AM_MEMORY == <<"tez-interactive-site", "tez.am.resource.memory.mb">>

-----------------------------------------------------------------------------
(* Results of calls that may raise (Fail, AssertionError, TypeError, ...)  *)

Ok(value) == [ok |-> TRUE, v |-> value]

Raised == [ok |-> FALSE, v |-> 0]

\* a local variable: the value is computed once and Body reads it
With(value, Body(_)) == Body(value)

Max(a, b) == IF a >= b THEN a ELSE b

Min(a, b) == IF a <= b THEN a ELSE b

\* math.ceil(a / b) for a >= 0, b > 0
CeilDiv(a, b) == (a + b - 1) \div b

-----------------------------------------------------------------------------
(* ChangeGate                                                              *)

\* the changed properties of every config type are taken together
are_config_props_in_changed_configs_AnyType(svc, config_type, config_names_set, all_exists) ==
  LET changed_config_names_set == { c[2] : c \in svc.changed }
      configs_intersection == changed_config_names_set \cap config_names_set
  IN  IF all_exists
      THEN configs_intersection = config_names_set
      ELSE Cardinality(configs_intersection) > 0

are_config_props_in_changed_configs(svc, config_type, config_names_set, all_exists) ==
  LET changed_config_names_set ==
        { c[2] : c \in { d \in svc.changed : d[1] = config_type } }
      configs_intersection == changed_config_names_set \cap config_names_set
  IN  IF all_exists
      THEN configs_intersection = config_names_set
      ELSE Cardinality(configs_intersection) > 0

-----------------------------------------------------------------------------
(* ClusterCapacityProvider                                                 *)

\* the NodeManager hosts (their number); None when hosts["items"] is empty
get_node_manager_hosts(svc, hst) ==
  IF hst.items > 0 THEN Ok(hst.nodemanagers) ELSE Raised

\* value edited in this cycle first, else the persisted one; 0 counts as absent
ReadPendingFirst(svc, cfg, key) ==
  LET recommended == IF Has(cfg.num, key) THEN cfg.num[key] ELSE 0
      current == IF recommended # 0 THEN recommended
                 ELSE IF Has(svc.num, key) THEN svc.num[key] ELSE 0
  IN  IF current = 0 THEN Raised
      ELSE IF current > 0 THEN Ok(current) ELSE Raised

get_yarn_min_container_size(svc, cfg) == ReadPendingFirst(svc, cfg, YARN_MIN_ALLOC)

get_yarn_nm_mem_in_mb(svc, cfg) == ReadPendingFirst(svc, cfg, YARN_NM_MEM)

get_hive_tez_container_size(svc, cfg) == ReadPendingFirst(svc, cfg, HIVE_TEZ_CONTAINER)

\* llap_queue_capacity: the persisted value; the pending one only when the
\* persisted one is <= 0; None (no return) when the property is absent
get_llap_cap_percent_slider(svc, cfg) ==
  IF Has(svc.num, LLAP_QUEUE_CAPACITY)
  THEN LET persisted == svc.num[LLAP_QUEUE_CAPACITY]
           value == IF persisted <= 0 /\ Has(cfg.num, LLAP_QUEUE_CAPACITY)
                    THEN cfg.num[LLAP_QUEUE_CAPACITY] ELSE persisted
       IN  IF value > 0 THEN Ok(value) ELSE Raised
  ELSE Raised

calculate_slider_am_size(yarn_min_container_size) ==
  IF yarn_min_container_size > 1024 THEN 1024
  ELSE IF yarn_min_container_size >= 256 THEN yarn_min_container_size
  ELSE 256

calculate_tez_am_container_size(total_cluster_capacity) ==
  IF total_cluster_capacity <= 0 THEN Raised
  ELSE IF total_cluster_capacity <= 4096 THEN Ok(256)
  ELSE IF total_cluster_capacity <= 73728 THEN Ok(512)
  ELSE Ok(1536)

\* math.floor(val1 / val2), val1 itself when that is below 1
normalizeDown(val1, val2) ==
  LET tmp == val1 \div val2
  IN  IF tmp < 1 THEN val1 ELSE tmp * val2

\* no rounding to a multiple of val2
normalizeUp_Unrounded(val1, val2) == val1

\* math.ceil(val1 / val2) * val2
normalizeUp(val1, val2) == CeilDiv(val1, val2) * val2

-----------------------------------------------------------------------------
(* FeasibilityCalculator                                                   *)

\* math.ceil((20.0 / 100 * total) * 100 / total) in IEEE-754 doubles: the
\* product 20.0 / 100 * total is rounded, and for totals such as 12288
\* (2457.6000000000004) it lies above total / 5, so the quotient lies above 20
CeilOfTwentyPercent(total_cluster_cap) ==
  CASE total_cluster_cap \in {12288} -> 21
    [] total_cluster_cap \in {2048, 204800} -> 20

\* ceil(100 * max(20% of the cluster, structural minimum) / cluster)
min_queue_perc_reqd_for_llap_and_hive_app(svc, hst, cfg) ==
  With(get_node_manager_hosts(svc, hst), LAMBDA node_manager_hosts :
  With(get_yarn_nm_mem_in_mb(svc, cfg), LAMBDA yarn_rm_mem_in_mb :
  With(get_yarn_min_container_size(svc, cfg), LAMBDA yarn_min_container_size :
  With(get_hive_tez_container_size(svc, cfg), LAMBDA hive_tez_container_size :
    IF ~node_manager_hosts.ok \/ ~yarn_rm_mem_in_mb.ok
       \/ ~yarn_min_container_size.ok \/ ~hive_tez_container_size.ok
    THEN Raised
    ELSE
      With(node_manager_hosts.v * yarn_rm_mem_in_mb.v, LAMBDA total_cluster_cap :
      With(calculate_tez_am_container_size(total_cluster_cap), LAMBDA tez_am_container_size :
        IF ~tez_am_container_size.ok THEN Raised
        ELSE
          With(normalizeUp(calculate_slider_am_size(yarn_min_container_size.v),
                           yarn_min_container_size.v)
               + normalizeUp(hive_tez_container_size.v, yarn_min_container_size.v)
               + normalizeUp(tez_am_container_size.v, yarn_min_container_size.v),
               LAMBDA normalized_val :
            \* min_required = max(20.0 / 100 * total, normalized_val);
            \* int(math.ceil(min_required * 100 / total))
            IF 100 * normalized_val > 20 * total_cluster_cap
            THEN Ok(CeilDiv(100 * normalized_val, total_cluster_cap))
            ELSE Ok(CeilOfTwentyPercent(total_cluster_cap)))))))))

-----------------------------------------------------------------------------
(* hive.llap.daemon.queue.name entries and llap_queue_capacity visibility  *)

\* the capacity-scheduler written earlier in this cycle, else the persisted one
PendingOrPersistedCapSched(svc, cfg) ==
  LET fromBlob == IF cfg.capSched.blob # <<>>
                  THEN ParseLines(cfg.capSched.blob) ELSE EmptyProps
      fromDict == IF DOMAIN fromBlob = {} /\ Cardinality(DOMAIN cfg.capSched.flat) > 1
                  THEN cfg.capSched.flat ELSE fromBlob
  IN  IF DOMAIN fromDict = {} THEN getCapacitySchedulerProperties(svc).props
      ELSE fromDict

setLlapDaemonQueuePropAttributesAndCapSliderVisibility(svc, cfg) ==
  LET capacity_scheduler_properties == PendingOrPersistedCapSched(svc, cfg)
      leafQueueNames == getAllYarnLeafQueues(capacity_scheduler_properties)
      selectedPersisted == Has(svc.str, DAEMON_QUEUE_NAME)
                           /\ svc.str[DAEMON_QUEUE_NAME] = "llap"
      selectedInCurrentCall == Has(cfg.str, DAEMON_QUEUE_NAME)
                               /\ cfg.str[DAEMON_QUEUE_NAME] = "llap"
      visible == Cardinality(leafQueueNames) = 2
                 /\ (selectedPersisted \/ selectedInCurrentCall)
  IN  IF leafQueueNames = {} THEN cfg
      ELSE putAttrStr(
             [cfg EXCEPT !.entries = leafQueueNames],
             "hive-interactive-env", "llap_queue_capacity", "visible",
             IF visible THEN "true" ELSE "false")

-----------------------------------------------------------------------------
(* QueueLifecycleManager                                                   *)

Return(cfg) == [cfg |-> cfg, ok |-> TRUE]

Raise(cfg) == [cfg |-> cfg, ok |-> FALSE]

\* the properties of the new 'llap' queue, in the order they are appended
LlapQueueValue(attribute, llap_slider_cap_percentage, hive_user) ==
  CASE attribute = "user-limit-factor"           -> "1"
    [] attribute = "state"                       -> "RUNNING"
    [] attribute = "ordering-policy"             -> "fifo"
    [] attribute = "minimum-user-limit-percent"  -> "100"
    [] attribute = "maximum-capacity"            -> llap_slider_cap_percentage
    [] attribute = "capacity"                    -> llap_slider_cap_percentage
    [] attribute = "acl_submit_applications"     -> hive_user
    [] attribute = "acl_administer_queue"        -> hive_user
    [] attribute = "maximum-am-resource-percent" -> "1"

\* a variant that leaves the maximum-capacity of the new queue at 100
LlapQueueLines_FullMaximum(llap_slider_cap_percentage, hive_user) ==
  [i \in 1..Len(LlapAttributes) |->
     << <<LLAP_QUEUE_NAME, LlapAttributes[i]>>,
        IF LlapAttributes[i] = "maximum-capacity" THEN "100"
        ELSE LlapQueueValue(LlapAttributes[i], llap_slider_cap_percentage, hive_user) >>]

LlapQueueLines(llap_slider_cap_percentage, hive_user) ==
  [i \in 1..Len(LlapAttributes) |->
     << <<LLAP_QUEUE_NAME, LlapAttributes[i]>>,
        LlapQueueValue(LlapAttributes[i], llap_slider_cap_percentage, hive_user) >>]

\* the properties without 'llap' in their name that are written back
ManagedKeep(props) ==
  { prop \in DOMAIN props :
      /\ ~NameHasLlap(prop)
      /\ \/ prop = ROOT_QUEUES
         \/ prop = <<"default", "capacity">>
         \/ prop = <<"default", "maximum-capacity">>
         \/ StartsWithYarn(prop) /\ ~NameHasDotLlapDot(prop) }

\* a variant that writes the 'default' queue back with the capacity it had
ManagedValue_DefaultKept(prop, val, adjusted_default_queue_cap) ==
  IF prop = ROOT_QUEUES THEN "default,llap" ELSE val

ManagedValue(prop, val, adjusted_default_queue_cap) ==
  IF prop = ROOT_QUEUES THEN "default,llap"
  ELSE IF prop = <<"default", "capacity">> THEN adjusted_default_queue_cap
  ELSE IF prop = <<"default", "maximum-capacity">> THEN adjusted_default_queue_cap
  ELSE val

RECURSIVE PutLines(_, _)
PutLines(cfg, lines) ==
  IF lines = <<>> THEN cfg
  ELSE PutLines(putCapSched(cfg, lines[1][1], lines[1][2]), Tail(lines))

\* a variant that resumes a STOPPED queue in every cycle
ManageCondition_ResumeAlways(leafQueueNames, yarn_default_queue_capacity, currLlapQueueState, currLlapQueueCap, llap_slider_cap_percentage, enabled_hive_int_in_changed_configs) ==
  /\ "default" \in leafQueueNames
  /\ \/ Cardinality(leafQueueNames) = 1 /\ yarn_default_queue_capacity = 100
     \/ /\ Cardinality(leafQueueNames) = 2 /\ LLAP_QUEUE_NAME \in leafQueueNames
        /\ \/ currLlapQueueState = "STOPPED"
           \/ currLlapQueueState = "RUNNING"
              /\ currLlapQueueCap # llap_slider_cap_percentage

\* a variant that rewrites a RUNNING queue also when its capacity is as requested
ManageCondition_AdjustAlways(leafQueueNames, yarn_default_queue_capacity, currLlapQueueState, currLlapQueueCap, llap_slider_cap_percentage, enabled_hive_int_in_changed_configs) ==
  /\ "default" \in leafQueueNames
  /\ \/ Cardinality(leafQueueNames) = 1 /\ yarn_default_queue_capacity = 100
     \/ /\ Cardinality(leafQueueNames) = 2 /\ LLAP_QUEUE_NAME \in leafQueueNames
        /\ \/ currLlapQueueState = "STOPPED" /\ enabled_hive_int_in_changed_configs
           \/ currLlapQueueState = "RUNNING"

\* a variant that does not count the leaf queues
ManageCondition_AnyTopology(leafQueueNames, yarn_default_queue_capacity, currLlapQueueState, currLlapQueueCap, llap_slider_cap_percentage, enabled_hive_int_in_changed_configs) ==
  /\ "default" \in leafQueueNames
  /\ \/ yarn_default_queue_capacity = 100
     \/ /\ LLAP_QUEUE_NAME \in leafQueueNames
        /\ \/ currLlapQueueState = "STOPPED" /\ enabled_hive_int_in_changed_configs
           \/ currLlapQueueState = "RUNNING"
              /\ currLlapQueueCap # llap_slider_cap_percentage

\* the condition under which the queue is created, resumed or adjusted
ManageCondition(leafQueueNames, yarn_default_queue_capacity, currLlapQueueState, currLlapQueueCap, llap_slider_cap_percentage, enabled_hive_int_in_changed_configs) ==
  /\ "default" \in leafQueueNames
  /\ \/ Cardinality(leafQueueNames) = 1 /\ yarn_default_queue_capacity = 100
     \/ /\ Cardinality(leafQueueNames) = 2 /\ LLAP_QUEUE_NAME \in leafQueueNames
        /\ \/ currLlapQueueState = "STOPPED" /\ enabled_hive_int_in_changed_configs
           \/ currLlapQueueState = "RUNNING"
              /\ currLlapQueueCap # llap_slider_cap_percentage

\* a variant that adjusts only a request above 100
AdjustedSliderCap_UpperOnly(llap_slider_cap_percentage, min_reqd_queue_cap_perc) ==
  IF llap_slider_cap_percentage > 100
  THEN min_reqd_queue_cap_perc
  ELSE llap_slider_cap_percentage

\* llap_queue_capacity after the out-of-bounds adjustment
AdjustedSliderCap(llap_slider_cap_percentage, min_reqd_queue_cap_perc) ==
  IF llap_slider_cap_percentage <= 0 \/ llap_slider_cap_percentage > 100
  THEN min_reqd_queue_cap_perc
  ELSE llap_slider_cap_percentage

\* 'Minimum Required LLAP queue capacity', adjusted to 100 when out of bounds
CappedMinReqd(min_reqd_queue_cap_perc) ==
  IF min_reqd_queue_cap_perc > 100 THEN 100 ELSE min_reqd_queue_cap_perc

\* a variant whose dictionary update is handed over before the 'llap'
\* properties are added
WriteManagedQueues_BeforeLlapProps(cfg, props, received_as_key_value_pair, adjusted_default_queue_cap, llap_slider_cap_percentage, hive_user) ==
  LET kept == [prop \in ManagedKeep(props) |->
                 ManagedValue(prop, props[prop], adjusted_default_queue_cap)]
      lines == LinesOf(kept, DOMAIN kept, 1)
  IN  IF ~received_as_key_value_pair
      THEN putCapSchedBlob(cfg, lines \o LlapQueueLines(llap_slider_cap_percentage, hive_user))
      ELSE PutLines(cfg, lines)

\* the capacity-scheduler update, as one text or as a dictionary
WriteManagedQueues(cfg, props, received_as_key_value_pair, adjusted_default_queue_cap, llap_slider_cap_percentage, hive_user) ==
  LET kept == [prop \in ManagedKeep(props) |->
                 ManagedValue(prop, props[prop], adjusted_default_queue_cap)]
      lines == LinesOf(kept, DOMAIN kept, 1)
               \o LlapQueueLines(llap_slider_cap_percentage, hive_user)
  IN  IF ~received_as_key_value_pair
      THEN putCapSchedBlob(cfg, lines)
      ELSE PutLines(cfg, lines)

checkAndManageLlapQueue(svc, cfg, hst) ==
  With(getCapacitySchedulerProperties(svc), LAMBDA cs :
  With(cs.props, LAMBDA capacity_scheduler_properties :
  With(getAllYarnLeafQueues(capacity_scheduler_properties), LAMBDA leafQueueNames :
  With(min_queue_perc_reqd_for_llap_and_hive_app(svc, hst, cfg), LAMBDA min_reqd :
    IF DOMAIN capacity_scheduler_properties = {} THEN Return(cfg)
    ELSE IF ~Has(svc.num, LLAP_QUEUE_CAPACITY) THEN Return(cfg)
    ELSE IF ~min_reqd.ok THEN Raise(cfg)
    ELSE
      With(CappedMinReqd(min_reqd.v), LAMBDA min_reqd_queue_cap_perc :
      With(svc.num[LLAP_QUEUE_CAPACITY], LAMBDA requested :
      With(AdjustedSliderCap(requested, min_reqd_queue_cap_perc),
           LAMBDA llap_slider_cap_percentage :
      With(IF requested <= 0 \/ requested > 100
           THEN putNum(cfg, "hive-interactive-env", "llap_queue_capacity",
                       min_reqd_queue_cap_perc)
           ELSE cfg, LAMBDA cfg1 :
      With(IF Has(capacity_scheduler_properties, <<"default", "capacity">>)
           THEN capacity_scheduler_properties[<<"default", "capacity">>] ELSE "-1",
           LAMBDA defaultCapText :
      With(IF Has(capacity_scheduler_properties, <<LLAP_QUEUE_NAME, "state">>)
           THEN capacity_scheduler_properties[<<LLAP_QUEUE_NAME, "state">>] ELSE "",
           LAMBDA currLlapQueueState :
      With(Has(capacity_scheduler_properties, <<LLAP_QUEUE_NAME, "capacity">>),
           LAMBDA hasLlapCap :
      With(IF hasLlapCap
           THEN capacity_scheduler_properties[<<LLAP_QUEUE_NAME, "capacity">>]
           ELSE "-1", LAMBDA llapCapText :
      With("default" \in leafQueueNames /\ Cardinality(leafQueueNames) = 1,
           LAMBDA onlyDefault :
        IF hasLlapCap /\ ~IsNumeral(llapCapText) THEN Raise(cfg1)
        ELSE IF ~Has(svc.str, DAEMON_QUEUE_NAME) THEN Return(cfg1)
        ELSE IF onlyDefault /\ defaultCapText # "-1" /\ ~IsNumeral(defaultCapText)
             THEN Raise(cfg1)
        ELSE IF ManageCondition(
                  leafQueueNames,
                  IF IsNumeral(defaultCapText) THEN IntOf(defaultCapText) ELSE -1,
                  currLlapQueueState,
                  IF hasLlapCap THEN IntOf(llapCapText) ELSE -1,
                  llap_slider_cap_percentage,
                  are_config_props_in_changed_configs(
                    svc, "hive-interactive-env", {"enable_hive_interactive"}, FALSE))
        THEN
          LET adjusted_default_queue_cap == Str(100 - llap_slider_cap_percentage)
              hive_user == IF Has(svc.str, HIVE_USER)
                           THEN svc.str[HIVE_USER] ELSE "*"
              cfg2 == WriteManagedQueues(
                        cfg1, capacity_scheduler_properties, cs.kv,
                        adjusted_default_queue_cap,
                        Str(llap_slider_cap_percentage), hive_user)
              cfg3 == putStr(cfg2, HIVE_INTERACTIVE_SITE,
                             "hive.llap.daemon.queue.name", LLAP_QUEUE_NAME)
              cfg4 == putStr(cfg3, HIVE_INTERACTIVE_SITE,
                             "hive.server2.tez.default.queues", LLAP_QUEUE_NAME)
              cfg5 == putAttrNum(cfg4, "hive-interactive-env",
                                 "llap_queue_capacity", "minimum",
                                 min_reqd_queue_cap_perc)
              cfg6 == putAttrNum(cfg5, "hive-interactive-env",
                                 "llap_queue_capacity", "maximum", 100)
          IN  Return(setLlapDaemonQueuePropAttributesAndCapSliderVisibility(
                       svc, cfg6))
        ELSE Return(cfg1))))))))))))))

\* a variant that leaves the maximum-capacity of both queues as it was
StoppedValue_MaximumKept(prop, val) ==
  IF ~NameHasLlap(prop)
  THEN IF prop = <<"default", "capacity">> THEN "100" ELSE val
  ELSE IF prop = <<LLAP_QUEUE_NAME, "state">> THEN "STOPPED"
       ELSE IF prop = <<LLAP_QUEUE_NAME, "capacity">> THEN "0"
       ELSE val

\* a variant that takes the capacity from the queue and leaves it RUNNING
StoppedValue_StateKept(prop, val) ==
  IF ~NameHasLlap(prop)
  THEN IF prop = <<"default", "capacity">> THEN "100"
       ELSE IF prop = <<"default", "maximum-capacity">> THEN "100"
       ELSE val
  ELSE IF prop = <<LLAP_QUEUE_NAME, "capacity">> THEN "0"
       ELSE IF prop = <<LLAP_QUEUE_NAME, "maximum-capacity">> THEN "0"
       ELSE val

\* the properties rewritten when the queue is stopped
StoppedValue(prop, val) ==
  IF ~NameHasLlap(prop)
  THEN IF prop = <<"default", "capacity">> THEN "100"
       ELSE IF prop = <<"default", "maximum-capacity">> THEN "100"
       ELSE val
  ELSE IF prop = <<LLAP_QUEUE_NAME, "state">> THEN "STOPPED"
       ELSE IF prop = <<LLAP_QUEUE_NAME, "capacity">> THEN "0"
       ELSE IF prop = <<LLAP_QUEUE_NAME, "maximum-capacity">> THEN "0"
       ELSE val

checkAndStopLlapQueue(svc, cfg) ==
  LET cs == getCapacitySchedulerProperties(svc)
      capacity_scheduler_properties == cs.props
      leafQueueNames == getAllYarnLeafQueues(capacity_scheduler_properties)
  IN  IF DOMAIN capacity_scheduler_properties = {} THEN Return(cfg)
      ELSE IF ~(Cardinality(leafQueueNames) = 2 /\ LLAP_QUEUE_NAME \in leafQueueNames
                /\ "default" \in leafQueueNames)
      THEN Return(cfg)
      ELSE IF ~Has(capacity_scheduler_properties, <<LLAP_QUEUE_NAME, "state">>)
      THEN Return(cfg)
      ELSE IF capacity_scheduler_properties[<<LLAP_QUEUE_NAME, "state">>] # "RUNNING"
      THEN Return(cfg)
      ELSE
        LET rewritten == [prop \in { q \in DOMAIN capacity_scheduler_properties :
                                       StartsWithYarn(q) } |->
                            StoppedValue(prop, capacity_scheduler_properties[prop])]
            defaultKeys == { prop \in DOMAIN rewritten : ~NameHasLlap(prop) }
            llapKeys == { prop \in DOMAIN rewritten : NameHasLlap(prop) }
            updated_default_queue_configs == LinesOf(rewritten, defaultKeys, 1)
            updated_llap_queue_configs == LinesOf(rewritten, llapKeys, 1)
        IN  IF updated_default_queue_configs # <<>> /\ updated_llap_queue_configs # <<>>
            THEN
              \* every line ends in "\n": the text ends with an empty line
              LET cfg1 == putCapSchedBlob(cfg, updated_default_queue_configs
                                               \o updated_llap_queue_configs
                                               \o << <<EMPTY_NAME, "">> >>)
                  cfg2 == putStr(cfg1, HIVE_INTERACTIVE_SITE,
                                 "hive.llap.daemon.queue.name",
                                 YARN_ROOT_DEFAULT_QUEUE_NAME)
              IN  Return(putStr(cfg2, HIVE_INTERACTIVE_SITE,
                                "hive.server2.tez.default.queues",
                                YARN_ROOT_DEFAULT_QUEUE_NAME))
            ELSE Return(cfg)

-----------------------------------------------------------------------------
(* SizingEngine                                                            *)

\* long(_normalizeDown(float(percent) / 100 * total, min)): the fraction
\* percent * total / 100 normalized down, then truncated
total_llap_queue_size_of(percent, total_cluster_capacity, yarn_min_container_size) ==
  LET tmp == (percent * total_cluster_capacity) \div (100 * yarn_min_container_size)
  IN  IF tmp < 1 THEN (percent * total_cluster_capacity) \div 100
      ELSE tmp * yarn_min_container_size

\* the number of Tez AMs without the limit of LLAP_MAX_CONCURRENCY
CalculatedConcurrency_Unlimited(total_llap_queue_size, normalized_tez_am_container_size) ==
  Max(total_llap_queue_size \div (4 * normalized_tez_am_container_size), 1)

\* number of Tez AMs when it is calculated: max(long(queue * 0.25 / am), 1), at most 32
CalculatedConcurrency(total_llap_queue_size, normalized_tez_am_container_size) ==
  LET llap_concurrency ==
        Max(total_llap_queue_size \div (4 * normalized_tez_am_container_size), 1)
  IN  IF llap_concurrency > LLAP_MAX_CONCURRENCY THEN LLAP_MAX_CONCURRENCY
      ELSE llap_concurrency

\* a variant that counts a started node as a whole one
NodesAndContainer_NodesRoundedUp(cap_available_for_daemons, yarn_nm_mem_in_mb, yarn_min_container_size) ==
  IF cap_available_for_daemons < yarn_nm_mem_in_mb
  THEN [num_llap_nodes |-> 1,
        llap_container_size |->
          normalizeUp(cap_available_for_daemons, yarn_min_container_size)]
  ELSE [num_llap_nodes |-> (cap_available_for_daemons + yarn_nm_mem_in_mb - 1)
                             \div yarn_nm_mem_in_mb,
        llap_container_size |->
          normalizeDown(yarn_nm_mem_in_mb, yarn_min_container_size)]

\* a daemon always gets the whole memory of a node
NodesAndContainer_WholeNode(cap_available_for_daemons, yarn_nm_mem_in_mb, yarn_min_container_size) ==
  [num_llap_nodes |-> Max(cap_available_for_daemons \div yarn_nm_mem_in_mb, 1),
   llap_container_size |-> normalizeDown(yarn_nm_mem_in_mb, yarn_min_container_size)]

\* (num_llap_nodes, llap_container_size) from the capacity left for daemons
NodesAndContainer(cap_available_for_daemons, yarn_nm_mem_in_mb, yarn_min_container_size) ==
  IF cap_available_for_daemons < yarn_nm_mem_in_mb
  THEN [num_llap_nodes |-> 1,
        llap_container_size |->
          normalizeUp(cap_available_for_daemons, yarn_min_container_size)]
  ELSE [num_llap_nodes |-> cap_available_for_daemons \div yarn_nm_mem_in_mb,
        llap_container_size |->
          normalizeDown(yarn_nm_mem_in_mb, yarn_min_container_size)]

\* min(math.floor(llap_container_size / hive_tez_container_size), cpu_per_nm_host)
NumExecutorsPerNode(llap_container_size, hive_tez_container_size, cpu_per_nm_host) ==
  Min(llap_container_size \div hive_tez_container_size, cpu_per_nm_host)

\* a variant that takes the cache from what the heap leaves of the container
CacheSizePerNode_HeapLeftover(llap_container_size, total_mem_for_executors) ==
  LET llap_xmx == IF (total_mem_for_executors * 4) \div 5 >= total_mem_for_executors - 1024
                  THEN (total_mem_for_executors * 4) \div 5
                  ELSE total_mem_for_executors - 1024
  IN  IF llap_container_size - llap_xmx < 0 THEN 0
      ELSE llap_container_size - llap_xmx

\* cache per node: what the executors leave of the container, never below 0
CacheSizePerNode(llap_container_size, total_mem_for_executors) ==
  IF llap_container_size - total_mem_for_executors < 0 THEN 0
  ELSE llap_container_size - total_mem_for_executors

\* long(max(total_mem_for_executors * 0.8, total_mem_for_executors - 1024))
LlapXmx(total_mem_for_executors) ==
  Max((total_mem_for_executors * 4) \div 5, total_mem_for_executors - 1024)

\* the capacity percentage of the selected queue
CurrentSelectedQueueCap(svc, cfg, props, selected, selectedInCurrentCall) ==
  IF selectedInCurrentCall = LLAP_QUEUE_NAME \/ selected = LLAP_QUEUE_NAME
  THEN get_llap_cap_percent_slider(svc, cfg)
  ELSE IF Has(props, <<selected, "capacity">>) /\ IsNumeral(props[<<selected, "capacity">>])
       THEN Ok(IntOf(props[<<selected, "capacity">>]))
       ELSE Raised

\* the calculations of the try block, up to the first write of a plan value
ComputePlan(svc, cfg, hst, props, selected, selectedInCurrentCall, llap_concurrency_in_changed_configs) ==
  With(get_node_manager_hosts(svc, hst), LAMBDA node_manager_host_list :
  With(CurrentSelectedQueueCap(svc, cfg, props, selected, selectedInCurrentCall),
       LAMBDA cap :
  With(get_yarn_nm_mem_in_mb(svc, cfg), LAMBDA yarn_nm_mem_in_mb :
  With(get_yarn_min_container_size(svc, cfg), LAMBDA yarn_min_container_size :
  With(get_hive_tez_container_size(svc, cfg), LAMBDA hive_tez_container_size :
    IF ~node_manager_host_list.ok \/ ~cap.ok \/ ~yarn_nm_mem_in_mb.ok
       \/ ~yarn_min_container_size.ok
    THEN Raised
    ELSE
      With(node_manager_host_list.v * yarn_nm_mem_in_mb.v,
           LAMBDA total_cluster_capacity :
      With(calculate_tez_am_container_size(total_cluster_capacity),
           LAMBDA tez_am_container_size :
        IF ~tez_am_container_size.ok THEN Raised
        ELSE
          With(normalizeUp(tez_am_container_size.v, yarn_min_container_size.v),
               LAMBDA normalized_tez_am_container_size :
          With(total_llap_queue_size_of(cap.v, total_cluster_capacity,
                                        yarn_min_container_size.v),
               LAMBDA total_llap_queue_size :
          With(normalizeUp(calculate_slider_am_size(yarn_min_container_size.v),
                           yarn_min_container_size.v),
               LAMBDA slider_am_container_size :
          With(IF ~llap_concurrency_in_changed_configs
               THEN Ok(CalculatedConcurrency(total_llap_queue_size,
                                             normalized_tez_am_container_size))
               ELSE IF Has(svc.num, SESSIONS_PER_QUEUE)
                       /\ svc.num[SESSIONS_PER_QUEUE] >= 1
                    THEN Ok(svc.num[SESSIONS_PER_QUEUE]) ELSE Raised,
               LAMBDA llap_concurrency :
            IF ~llap_concurrency.ok THEN Raised
            ELSE
              With(normalized_tez_am_container_size * llap_concurrency.v
                   + slider_am_container_size,
                   LAMBDA total_am_capacity_required :
              With(total_llap_queue_size - total_am_capacity_required,
                   LAMBDA cap_available_for_daemons :
              With(NodesAndContainer(cap_available_for_daemons,
                                     yarn_nm_mem_in_mb.v,
                                     yarn_min_container_size.v), LAMBDA nc :
                IF cap_available_for_daemons < yarn_min_container_size.v
                THEN Raised
                ELSE IF ~hive_tez_container_size.ok
                        \/ ~(Has(svc.num, YARN_NM_VCORES)
                             /\ svc.num[YARN_NM_VCORES] > 0)
                     THEN Raised
                ELSE
                  With(NumExecutorsPerNode(nc.llap_container_size,
                                           hive_tez_container_size.v,
                                           svc.num[YARN_NM_VCORES]),
                       LAMBDA num_executors_per_node :
                  With(num_executors_per_node * hive_tez_container_size.v,
                       LAMBDA total_mem_for_executors :
                    IF num_executors_per_node < 0 THEN Raised
                    ELSE Ok([
                      tez_am |-> normalized_tez_am_container_size,
                      total_llap_queue_size |-> total_llap_queue_size,
                      llap_concurrency |-> llap_concurrency.v,
                      cap_available_for_daemons |-> cap_available_for_daemons,
                      num_llap_nodes |-> nc.num_llap_nodes,
                      llap_container_size |-> nc.llap_container_size,
                      num_executors_per_node |-> num_executors_per_node,
                      cache_size_per_node |->
                        CacheSizePerNode(nc.llap_container_size,
                                         total_mem_for_executors),
                      llap_xmx |-> LlapXmx(total_mem_for_executors),
                      slider_am_container_size |-> slider_am_container_size ])))))))))))))))))

\* "Updating calculated configs": every plan value, written after all calculations
WritePlan(cfg, plan, llap_concurrency_in_changed_configs) ==
  LET c1  == putNum(cfg, "tez-interactive-site", "tez.am.resource.memory.mb", plan.tez_am)
      c2  == IF ~llap_concurrency_in_changed_configs
             THEN putAttrNum(
                    putAttrNum(
                      putNum(c1, HIVE_INTERACTIVE_SITE,
                             "hive.server2.tez.sessions.per.default.queue",
                             plan.llap_concurrency),
                      HIVE_INTERACTIVE_SITE,
                      "hive.server2.tez.sessions.per.default.queue", "minimum", 1),
                    HIVE_INTERACTIVE_SITE,
                    "hive.server2.tez.sessions.per.default.queue", "maximum",
                    LLAP_MAX_CONCURRENCY)
             ELSE c1
      c3  == putNum(c2, "hive-interactive-env", "num_llap_nodes", plan.num_llap_nodes)
      c4  == putNum(c3, "hive-interactive-env", "num_llap_nodes_copy", plan.num_llap_nodes)
      c5  == putNum(c4, HIVE_INTERACTIVE_SITE, "hive.llap.daemon.yarn.container.mb",
                    plan.llap_container_size)
      c6  == putNum(c5, HIVE_INTERACTIVE_SITE, "hive.llap.daemon.yarn.container.mb_copy",
                    plan.llap_container_size)
      c7  == putNum(c6, HIVE_INTERACTIVE_SITE, "hive.llap.daemon.num.executors",
                    plan.num_executors_per_node)
      c8  == putNum(c7, HIVE_INTERACTIVE_SITE, "hive.llap.daemon.num.executors_copy",
                    plan.num_executors_per_node)
      c9  == putNum(c8, HIVE_INTERACTIVE_SITE, "hive.llap.io.threadpool.size",
                    plan.num_executors_per_node)
      c10 == putNum(c9, HIVE_INTERACTIVE_SITE, "hive.llap.io.memory.size",
                    plan.cache_size_per_node)
      c11 == putNum(c10, HIVE_INTERACTIVE_SITE, "hive.llap.io.memory.size_copy",
                    plan.cache_size_per_node)
      c12 == putStr(c11, HIVE_INTERACTIVE_SITE, "hive.llap.io.enabled",
                    IF plan.cache_size_per_node >= 64 THEN "true" ELSE "false")
      c13 == putNum(c12, "hive-interactive-env", "llap_heap_size", plan.llap_xmx)
  IN  putNum(c13, "hive-interactive-env", "slider_am_container_size",
             plan.slider_am_container_size)

\* the except block: "Set default values, if caught an Exception"
WriteDefaults(svc, cfg, hst) ==
  LET yarn_min_container_size == get_yarn_min_container_size(svc, cfg)
      node_manager_host_list == get_node_manager_hosts(svc, hst)
  IN  IF ~yarn_min_container_size.ok \/ ~node_manager_host_list.ok THEN cfg
      ELSE
        LET slider_am_container_size == calculate_slider_am_size(yarn_min_container_size.v)
            node_manager_cnt == node_manager_host_list.v
            sess == "hive.server2.tez.sessions.per.default.queue"
            mb   == "hive.llap.daemon.yarn.container.mb"
            mbc  == "hive.llap.daemon.yarn.container.mb_copy"
            ex   == "hive.llap.daemon.num.executors"
            exc  == "hive.llap.daemon.num.executors_copy"
            d1  == putNum(cfg, HIVE_INTERACTIVE_SITE, sess, 1)
            d2  == putAttrNum(d1, HIVE_INTERACTIVE_SITE, sess, "minimum", 1)
            d3  == putAttrNum(d2, HIVE_INTERACTIVE_SITE, sess, "maximum", 32)
            d4  == putNum(d3, "hive-interactive-env", "num_llap_nodes", 0)
            d5  == putAttrNum(d4, "hive-interactive-env", "num_llap_nodes", "minimum", 1)
            d6  == putAttrNum(d5, "hive-interactive-env", "num_llap_nodes", "maximum",
                              node_manager_cnt)
            d7  == putNum(d6, "hive-interactive-env", "num_llap_nodes_copy", 0)
            d8  == putAttrNum(d7, "hive-interactive-env", "num_llap_nodes_copy",
                              "minimum", 1)
            d9  == putAttrNum(d8, "hive-interactive-env", "num_llap_nodes_copy",
                              "maximum", node_manager_cnt)
            d10 == putNum(d9, HIVE_INTERACTIVE_SITE, mb, yarn_min_container_size.v)
            d11 == putAttrNum(d10, HIVE_INTERACTIVE_SITE, mb, "minimum",
                              yarn_min_container_size.v)
            d12 == putNum(d11, HIVE_INTERACTIVE_SITE, mbc, yarn_min_container_size.v)
            d13 == putAttrNum(d12, HIVE_INTERACTIVE_SITE, mbc, "minimum",
                              yarn_min_container_size.v)
            d14 == putNum(d13, HIVE_INTERACTIVE_SITE, ex, 0)
            d15 == putAttrNum(d14, HIVE_INTERACTIVE_SITE, ex, "minimum", 1)
            d16 == putNum(d15, HIVE_INTERACTIVE_SITE, exc, 0)
            d17 == putAttrNum(d16, HIVE_INTERACTIVE_SITE, exc, "minimum", 1)
            d18 == putNum(d17, HIVE_INTERACTIVE_SITE, "hive.llap.io.threadpool.size", 0)
            d19 == putNum(d18, HIVE_INTERACTIVE_SITE, "hive.llap.io.memory.size", 0)
            d20 == putNum(d19, HIVE_INTERACTIVE_SITE, "hive.llap.io.memory.size_copy", 0)
            d21 == putNum(d20, "hive-interactive-env", "llap_heap_size", 0)
        IN  putNum(d21, "hive-interactive-env", "slider_am_container_size",
                   slider_am_container_size)

\* the tracked fields: a change of any of them triggers the calculation
TrackedChanged(svc) ==
  \/ are_config_props_in_changed_configs(
       svc, "hive-interactive-env", {"llap_queue_capacity", "enable_hive_interactive"}, FALSE)
  \/ are_config_props_in_changed_configs(
       svc, HIVE_INTERACTIVE_SITE, {"hive.server2.tez.sessions.per.default.queue"}, FALSE)
  \/ are_config_props_in_changed_configs(
       svc, HIVE_INTERACTIVE_SITE, {"hive.llap.daemon.queue.name"}, FALSE)

\* a variant that does not count the leaf queues
SliderVisibleInUpdate_AnyLeafCount(leafQueueNames, selected, selectedInCurrentCall) ==
  \/ selected = LLAP_QUEUE_NAME
  \/ selectedInCurrentCall = LLAP_QUEUE_NAME

\* visibility of the slider as the try block of updateLlapConfigs decides it:
\* "len == 2 and persisted == llap or current == llap"
SliderVisibleInUpdate(leafQueueNames, selected, selectedInCurrentCall) ==
  \/ Cardinality(leafQueueNames) = 2 /\ selected = LLAP_QUEUE_NAME
  \/ selectedInCurrentCall = LLAP_QUEUE_NAME

\* the selected queue is missing or STOPPED only when it has a state
QueueCheckRaises_StoppedRuns(props, selected) ==
  \/ selected = ""
  \/ ~Has(props, <<selected, "state">>)

\* the check of the selected queue: Fail when no queue name was retrieved,
\* when the queue has no state among the scheduler properties or is STOPPED
QueueCheckRaises(props, selected) ==
  \/ selected = ""
  \/ ~Has(props, <<selected, "state">>)
  \/ props[<<selected, "state">>] = "STOPPED"

updateLlapConfigs(svc, cfg, hst) ==
  With(setLlapDaemonQueuePropAttributesAndCapSliderVisibility(svc, cfg), LAMBDA cfgA :
  With(get_yarn_min_container_size(svc, cfgA), LAMBDA read_llap_daemon_yarn_cont_mb :
    IF ~read_llap_daemon_yarn_cont_mb.ok THEN Raise(cfgA)
    ELSE
      With(putNum(cfgA, HIVE_INTERACTIVE_SITE, "hive.llap.daemon.yarn.container.mb",
                  read_llap_daemon_yarn_cont_mb.v), LAMBDA cfgB :
      With(IF ~Has(cfgB.num, DAEMON_CONTAINER_MB_COPY)
           THEN putNum(cfgB, HIVE_INTERACTIVE_SITE,
                       "hive.llap.daemon.yarn.container.mb_copy",
                       read_llap_daemon_yarn_cont_mb.v)
           ELSE cfgB, LAMBDA cfgC :
      \* None is modelled by the empty name
      With(IF Has(svc.str, DAEMON_QUEUE_NAME)
           THEN svc.str[DAEMON_QUEUE_NAME] ELSE "", LAMBDA selected :
      With(IF Has(cfgC.str, DAEMON_QUEUE_NAME)
           THEN cfgC.str[DAEMON_QUEUE_NAME] ELSE "", LAMBDA selectedInCurrentCall :
      With(getCapacitySchedulerProperties(svc).props, LAMBDA props :
      With(putAttrStr(cfgC, "hive-interactive-env", "llap_queue_capacity",
                      "visible",
                      IF SliderVisibleInUpdate(getAllYarnLeafQueues(props), selected,
                                               selectedInCurrentCall)
                      THEN "true" ELSE "false"), LAMBDA cfgD :
      With(are_config_props_in_changed_configs(
             svc, HIVE_INTERACTIVE_SITE,
             {"hive.server2.tez.sessions.per.default.queue"}, FALSE),
           LAMBDA llap_concurrency_in_changed_configs :
        IF DOMAIN props = {} THEN Return(cfgC)
        ELSE IF QueueCheckRaises(props, selected)
             THEN Return(WriteDefaults(svc, cfgD, hst))
        ELSE IF ~TrackedChanged(svc) THEN Return(cfgD)
        ELSE
          With(ComputePlan(svc, cfgD, hst, props, selected, selectedInCurrentCall,
                           llap_concurrency_in_changed_configs), LAMBDA plan :
            IF ~plan.ok THEN Return(WriteDefaults(svc, cfgD, hst))
            ELSE Return(WritePlan(cfgD, plan.v, llap_concurrency_in_changed_configs))))))))))))

-----------------------------------------------------------------------------
(* One recommendation cycle                                                *)

\* recommendYARNConfigurations: the queue manager, then the sizing engine
recommendYARNConfigurations(svc, cfg, hst) ==
  IF ~Has(svc.str, ENABLE_HIVE_INTERACTIVE) THEN Return(cfg)
  ELSE IF svc.str[ENABLE_HIVE_INTERACTIVE] = "true"
       THEN With(checkAndManageLlapQueue(svc, cfg, hst), LAMBDA managed :
              IF ~managed.ok THEN managed
              ELSE updateLlapConfigs(svc, managed.cfg, hst))
       ELSE checkAndStopLlapQueue(svc, cfg)

\* recommendHIVEConfigurations where the Hive Server Interactive component
\* exists: the feature flag, the entries and the slider visibility, the Tez
\* default queue, and the display copies, each taken from the persisted
\* value of its primary
recommendHIVEConfigurations(svc, cfg) ==
  With(putStr(cfg, "hive-interactive-env", "enable_hive_interactive", "true"), LAMBDA c1 :
  With(IF ~Has(svc.str, DAEMON_QUEUE_NAME) THEN c1
       ELSE With(setLlapDaemonQueuePropAttributesAndCapSliderVisibility(svc, c1), LAMBDA c :
            With(IF Has(c.str, DAEMON_QUEUE_NAME) /\ c.str[DAEMON_QUEUE_NAME] # ""
                 THEN c.str[DAEMON_QUEUE_NAME] ELSE svc.str[DAEMON_QUEUE_NAME],
                 LAMBDA hive_tez_default_queue :
              IF hive_tez_default_queue # ""
              THEN putStr(c, HIVE_INTERACTIVE_SITE, "hive.server2.tez.default.queues",
                          hive_tez_default_queue)
              ELSE c)), LAMBDA c2 :
  With(IF Has(svc.num, DAEMON_CONTAINER_MB)
       THEN putNum(c2, HIVE_INTERACTIVE_SITE, "hive.llap.daemon.yarn.container.mb_copy",
                   svc.num[DAEMON_CONTAINER_MB]) ELSE c2, LAMBDA c3 :
  With(IF Has(svc.num, DAEMON_NUM_EXECUTORS)
       THEN putNum(c3, HIVE_INTERACTIVE_SITE, "hive.llap.daemon.num.executors_copy",
                   svc.num[DAEMON_NUM_EXECUTORS]) ELSE c3, LAMBDA c4 :
  With(IF Has(svc.num, IO_MEMORY_SIZE)
       THEN putNum(c4, HIVE_INTERACTIVE_SITE, "hive.llap.io.memory.size_copy",
                   svc.num[IO_MEMORY_SIZE]) ELSE c4, LAMBDA c5 :
    IF Has(svc.num, NUM_LLAP_NODES)
    THEN putNum(c5, "hive-interactive-env", "num_llap_nodes_copy", svc.num[NUM_LLAP_NODES])
    ELSE c5)))))

-----------------------------------------------------------------------------
(* Validation of hive-interactive-site                                     *)

\* validateHiveInteractiveSiteConfigurations, its checks of the selected
\* queue: an error item when the capacity of the queue is below the minimum
\* required percentage, an error item when the queue is STOPPED.  An item
\* carries the numbers of its message.
validateHiveInteractiveSiteConfigurations(svc, cfg, hst) ==
  With(getCapacitySchedulerProperties(svc).props, LAMBDA props :
    IF DOMAIN props = {} \/ ~Has(svc.str, DAEMON_QUEUE_NAME) THEN Ok({})
    ELSE
      With(svc.str[DAEMON_QUEUE_NAME], LAMBDA curr_selected_queue_for_llap :
      With(IF Has(props, <<curr_selected_queue_for_llap, "state">>)
              /\ props[<<curr_selected_queue_for_llap, "state">>] = "STOPPED"
           THEN {[name |-> "hive.llap.daemon.queue.name", state |-> "STOPPED"]}
           ELSE {}, LAMBDA stateItems :
        IF curr_selected_queue_for_llap = "" THEN Ok({})
        ELSE IF ~Has(props, <<curr_selected_queue_for_llap, "capacity">>)
             THEN Ok(stateItems)
        ELSE
          With(IntOf(props[<<curr_selected_queue_for_llap, "capacity">>]),
               LAMBDA curr_selected_queue_for_llap_cap :
          With(min_queue_perc_reqd_for_llap_and_hive_app(svc, hst, cfg),
               LAMBDA min_reqd_queue_cap_perc :
            IF ~min_reqd_queue_cap_perc.ok THEN Raised
            ELSE IF curr_selected_queue_for_llap_cap < min_reqd_queue_cap_perc.v
                 THEN Ok({[name |-> "hive.llap.daemon.queue.name",
                           capacity |-> curr_selected_queue_for_llap_cap,
                           required |-> min_reqd_queue_cap_perc.v]}
                         \cup stateItems)
                 ELSE Ok(stateItems))))))

-----------------------------------------------------------------------------
(* Inputs                                                                  *)

EmptyStore == [k \in {} |-> 0]

EmptyConfigurations ==
  [ num |-> EmptyStore, str |-> EmptyStore, attrNum |-> EmptyStore,
    attrStr |-> EmptyStore, entries |-> {},
    capSched |-> [blob |-> <<>>, flat |-> EmptyProps] ]

\* cluster facts: NodeManager hosts, memory per node, minimum allocation,
\* hive.tez.container.size, vcores per node
FactsChoices ==
  { [nodes |-> 10, nm_mem |-> 20480, min_alloc |-> 1024, tez_container |-> 4096, vcores |-> 8],
    [nodes |-> 2,  nm_mem |-> 6144,  min_alloc |-> 1024, tez_container |-> 1024, vcores |-> 2],
    [nodes |-> 1,  nm_mem |-> 2048,  min_alloc |-> 1024, tez_container |-> 1024, vcores |-> 1] }

\* values recommended for yarn-site / hive-site earlier in the same cycle
PendingChoices ==
  { EmptyStore,
    (YARN_MIN_ALLOC :> 512),
    (HIVE_TEZ_CONTAINER :> 1536) }

\* llap_queue_capacity values the operator may request
RequestChoices == {0, 5, 30, 50, 150}

QueueChoices == {"default", "llap"}

ConcurrencyChoices == {0, 2}

DefaultQueueProps(capacity) ==
  (ROOT_QUEUES :> "default") @@ (<<"root", "capacity">> :> "100")
  @@ (<<"default", "capacity">> :> capacity)
  @@ (<<"default", "maximum-capacity">> :> capacity)
  @@ (<<"default", "state">> :> "RUNNING")
  @@ (<<"default", "user-limit-factor">> :> "1")

OtherQueueProps(capacity) ==
  (<<"other", "capacity">> :> capacity)
  @@ (<<"other", "maximum-capacity">> :> capacity)
  @@ (<<"other", "state">> :> "RUNNING")

LlapQueueProps(capacity, state) ==
  [prop \in { <<LLAP_QUEUE_NAME, LlapAttributes[i]>> : i \in DOMAIN LlapAttributes } |->
     IF prop[2] = "state" THEN state
     ELSE LlapQueueValue(prop[2], capacity, "hive")]

\* the queue trees a cluster may start with
TreeChoices ==
  { DefaultQueueProps("100"),
    DefaultQueueProps("50"),
    (ROOT_QUEUES :> "default,llap") @@ LlapQueueProps("30", "RUNNING")
      @@ DefaultQueueProps("70"),
    (ROOT_QUEUES :> "default,llap") @@ LlapQueueProps("0", "STOPPED")
      @@ DefaultQueueProps("100"),
    (ROOT_QUEUES :> "default,other") @@ OtherQueueProps("40") @@ DefaultQueueProps("60"),
    (ROOT_QUEUES :> "default,llap,other") @@ LlapQueueProps("30", "RUNNING")
      @@ OtherQueueProps("20") @@ DefaultQueueProps("50") }

\* the two wire shapes of a queue tree
AsBlob(props) == [blob |-> LinesOf(props, DOMAIN props, 1), flat |-> EmptyProps]

AsFlat(props) == [blob |-> <<>>, flat |-> props]

InitialServices(facts, capSched, enabled, queue) ==
  [ num |-> (YARN_MIN_ALLOC :> facts.min_alloc) @@ (YARN_NM_MEM :> facts.nm_mem)
            @@ (YARN_NM_VCORES :> facts.vcores)
            @@ (HIVE_TEZ_CONTAINER :> facts.tez_container)
            @@ (LLAP_QUEUE_CAPACITY :> 30),
    str |-> (ENABLE_HIVE_INTERACTIVE :> enabled) @@ (DAEMON_QUEUE_NAME :> queue)
            @@ (HIVE_USER :> "hive"),
    capSched |-> capSched,
    changed |-> {} ]

-----------------------------------------------------------------------------
(* The state machine: the operator edits a field, the advisor runs a cycle, *)
(* the recommendations are saved and become the input of the next cycle.   *)

Init ==
  /\ \E facts \in FactsChoices, tree \in TreeChoices, queue \in QueueChoices,
        enabled \in {"true", "false"}, blob \in BOOLEAN, toggled \in BOOLEAN :
       \* toggled: the first cycle is the one in which the operator switched
       \* Hive Server Interactive on or off
       /\ services = [InitialServices(facts, IF blob THEN AsBlob(tree) ELSE AsFlat(tree),
                                      enabled, queue)
                        EXCEPT !.changed = IF toggled THEN {ENABLE_HIVE_INTERACTIVE}
                                           ELSE {}]
       /\ hosts = [items |-> facts.nodes, nodemanagers |-> facts.nodes]
  /\ configurations = EmptyConfigurations
  /\ pending = EmptyStore
  /\ outcome = "none"
  /\ lastOp = "init"
  /\ steps = 0
  /\ validationItems = {}

Edit(key) ==
  /\ steps < MaxSteps
  /\ lastOp # "recommend"
  /\ steps' = steps + 1
  /\ lastOp' = "edit"
  /\ UNCHANGED <<hosts, configurations, pending, outcome, validationItems>>

\* the operator moves the llap_queue_capacity slider
EditLlapQueueCapacity ==
  /\ Edit(LLAP_QUEUE_CAPACITY)
  /\ \E p \in RequestChoices :
       /\ p # services.num[LLAP_QUEUE_CAPACITY]
       /\ services' = [services EXCEPT
                         !.num = PutIn(@, LLAP_QUEUE_CAPACITY, p),
                         !.changed = @ \cup {LLAP_QUEUE_CAPACITY}]

\* the operator turns Hive Server Interactive on or off
EditEnableHiveInteractive ==
  /\ Edit(ENABLE_HIVE_INTERACTIVE)
  /\ services' = [services EXCEPT
                    !.str = PutIn(@, ENABLE_HIVE_INTERACTIVE,
                                  IF @[ENABLE_HIVE_INTERACTIVE] = "true"
                                  THEN "false" ELSE "true"),
                    !.changed = @ \cup {ENABLE_HIVE_INTERACTIVE}]

\* the operator selects another queue for the LLAP daemons
EditDaemonQueueName ==
  /\ Edit(DAEMON_QUEUE_NAME)
  /\ \E q \in QueueChoices :
       /\ q # services.str[DAEMON_QUEUE_NAME]
       /\ services' = [services EXCEPT
                         !.str = PutIn(@, DAEMON_QUEUE_NAME, q),
                         !.changed = @ \cup {DAEMON_QUEUE_NAME}]

\* the operator sets the number of Tez sessions
EditSessionsPerQueue ==
  /\ Edit(SESSIONS_PER_QUEUE)
  /\ \E c \in ConcurrencyChoices :
       services' = [services EXCEPT
                      !.num = PutIn(@, SESSIONS_PER_QUEUE, c),
                      !.changed = @ \cup {SESSIONS_PER_QUEUE}]

\* the operator changes a field that is not tracked
EditHiveUser ==
  /\ Edit(HIVE_USER)
  /\ services.str[HIVE_USER] = "hive"
  /\ services' = [services EXCEPT
                    !.str = PutIn(@, HIVE_USER, "hive2"),
                    !.changed = @ \cup {HIVE_USER}]

\* one recommendation cycle, on fresh configurations
Recommend ==
  /\ steps < MaxSteps
  /\ lastOp # "recommend"
  /\ \E written \in PendingChoices :
       LET result == recommendYARNConfigurations(
                       services, [EmptyConfigurations EXCEPT !.num = written], hosts)
       IN  /\ pending' = written
           /\ configurations' = result.cfg
           /\ outcome' = IF result.ok THEN "returned" ELSE "raised"
  /\ steps' = steps + 1
  /\ lastOp' = "recommend"
  /\ UNCHANGED <<services, hosts, validationItems>>

\* properties of m override those of store
Merge(store, m) ==
  [k \in (DOMAIN store) \cup (DOMAIN m) |-> IF k \in DOMAIN m THEN m[k] ELSE store[k]]

\* the recommendations are saved: they are the persisted state of the next cycle
Persist ==
  /\ lastOp = "recommend"
  /\ outcome = "returned"
  /\ services' = [ num |-> Merge(services.num, configurations.num),
                   str |-> Merge(services.str, configurations.str),
                   capSched |->
                     [ blob |-> IF configurations.capSched.blob # <<>>
                                THEN configurations.capSched.blob
                                ELSE services.capSched.blob,
                       flat |-> Merge(services.capSched.flat,
                                      configurations.capSched.flat) ],
                   changed |-> {} ]
  /\ lastOp' = "persist"
  /\ UNCHANGED <<hosts, configurations, pending, outcome, steps, validationItems>>

Next ==
  \/ EditLlapQueueCapacity
  \/ EditEnableHiveInteractive
  \/ EditDaemonQueueName
  \/ EditSessionsPerQueue
  \/ EditHiveUser
  \/ Recommend
  \/ Persist

Spec == Init /\ [][Next]_vars

\* a recommendation on the saved state in which the framework calls both
\* recommenders on one configurations object, in either order
RecommendHiveAndYarn ==
  /\ steps < MaxSteps
  /\ lastOp = "persist"
  /\ \E written \in PendingChoices, hiveFirst \in BOOLEAN :
       LET fresh == [EmptyConfigurations EXCEPT !.num = written]
           result ==
             IF hiveFirst
             THEN recommendYARNConfigurations(
                    services, recommendHIVEConfigurations(services, fresh), hosts)
             ELSE With(recommendYARNConfigurations(services, fresh, hosts), LAMBDA yarn :
                    IF yarn.ok THEN Return(recommendHIVEConfigurations(services, yarn.cfg))
                    ELSE yarn)
       IN  /\ pending' = written
           /\ configurations' = result.cfg
           /\ outcome' = IF result.ok THEN "returned" ELSE "raised"
  /\ steps' = steps + 1
  /\ lastOp' = "recommend both"
  /\ UNCHANGED <<services, hosts, validationItems>>

\* a cluster whose queues are 'default' at 70 and 'llap' RUNNING at 30, with
\* llap_queue_capacity 30; the 'llap' queue is as the advisor creates it or
\* has the ordering policy the operator gave it
RoundTripInit ==
  /\ \E facts \in FactsChoices, policy \in {"fifo", "fair"},
        enabled \in {"true", "false"}, blob \in BOOLEAN, toggled \in BOOLEAN :
       LET tree == (ROOT_QUEUES :> "default,llap")
                   @@ (<<LLAP_QUEUE_NAME, "ordering-policy">> :> policy)
                   @@ LlapQueueProps("30", "RUNNING") @@ DefaultQueueProps("70")
       IN  /\ services = [InitialServices(facts, IF blob THEN AsBlob(tree) ELSE AsFlat(tree),
                                          enabled, LLAP_QUEUE_NAME)
                            EXCEPT !.changed = IF toggled THEN {ENABLE_HIVE_INTERACTIVE}
                                               ELSE {}]
           /\ hosts = [items |-> facts.nodes, nodemanagers |-> facts.nodes]
  /\ configurations = EmptyConfigurations
  /\ pending = EmptyStore
  /\ outcome = "none"
  /\ lastOp = "init"
  /\ steps = 0
  /\ validationItems = {}

RoundTripSpec == RoundTripInit /\ [][Next]_vars

PanelNext ==
  \/ Next
  \/ RecommendHiveAndYarn

PanelSpec == Init /\ [][PanelNext]_vars

-----------------------------------------------------------------------------
(* The sizing engine on its own: updateLlapConfigs, and the whole cycle,   *)
(* on inputs in which a cluster fact or a property may be missing.         *)

\* marks a property that the services object does not hold
Absent == -1

OnlyPresent(store) ==
  [k \in { x \in DOMAIN store : store[x] # Absent } |-> store[k]]

\* cluster facts: items is the number of hosts, nodes the number of them that
\* run a NodeManager
EngineFactsChoices ==
  { [items |-> 10, nodes |-> 10, nm_mem |-> 20480, min_alloc |-> 1024, tez_container |-> 4096, vcores |-> 8],
    [items |-> 2,  nodes |-> 2,  nm_mem |-> 6144,  min_alloc |-> 1024, tez_container |-> 1024, vcores |-> 2],
    [items |-> 1,  nodes |-> 1,  nm_mem |-> 2048,  min_alloc |-> 1024, tez_container |-> 1024, vcores |-> 1],
    [items |-> 10, nodes |-> 10, nm_mem |-> 20480, min_alloc |-> 1024, tez_container |-> 4096, vcores |-> Absent],
    [items |-> 10, nodes |-> 10, nm_mem |-> 20480, min_alloc |-> Absent, tez_container |-> 4096, vcores |-> 8],
    [items |-> 10, nodes |-> 10, nm_mem |-> 20480, min_alloc |-> 0, tez_container |-> 4096, vcores |-> 8],
    [items |-> 10, nodes |-> 10, nm_mem |-> 20480, min_alloc |-> 1024, tez_container |-> Absent, vcores |-> 8],
    [items |-> 10, nodes |-> 0,  nm_mem |-> 20480, min_alloc |-> 1024, tez_container |-> 4096, vcores |-> 8],
    [items |-> 0,  nodes |-> 0,  nm_mem |-> 20480, min_alloc |-> 1024, tez_container |-> 4096, vcores |-> 8] }

EngineServices(facts, capSched, queue, request, sessions, changed) ==
  [ num |-> OnlyPresent(
              (YARN_MIN_ALLOC :> facts.min_alloc) @@ (YARN_NM_MEM :> facts.nm_mem)
              @@ (YARN_NM_VCORES :> facts.vcores)
              @@ (HIVE_TEZ_CONTAINER :> facts.tez_container)
              @@ (LLAP_QUEUE_CAPACITY :> request)
              @@ (SESSIONS_PER_QUEUE :> sessions)),
    str |-> IF queue = ""
            THEN (ENABLE_HIVE_INTERACTIVE :> "true") @@ (HIVE_USER :> "hive")
            ELSE (ENABLE_HIVE_INTERACTIVE :> "true") @@ (HIVE_USER :> "hive")
                 @@ (DAEMON_QUEUE_NAME :> queue),
    capSched |-> capSched,
    changed |-> changed ]

\* every queue tree and no capacity-scheduler at all; the selected queue
\* ("" when hive.llap.daemon.queue.name is missing); llap_queue_capacity;
\* hive.server2.tez.sessions.per.default.queue; changed-configurations
EngineInit ==
  /\ \E facts \in EngineFactsChoices,
        tree \in TreeChoices \cup {EmptyProps},
        queue \in {"", "default", "llap", "other"},
        request \in {Absent, 5, 20, 30},
        sessions \in {Absent, 0, 2},
        changed \in { {}, {LLAP_QUEUE_CAPACITY}, {ENABLE_HIVE_INTERACTIVE},
                      {SESSIONS_PER_QUEUE}, {DAEMON_QUEUE_NAME}, {HIVE_USER} } :
       /\ services = EngineServices(facts, AsFlat(tree), queue, request, sessions, changed)
       /\ hosts = [items |-> facts.items, nodemanagers |-> facts.nodes]
  /\ configurations = EmptyConfigurations
  /\ pending = EmptyStore
  /\ outcome = "none"
  /\ lastOp = "init"
  /\ steps = 0
  /\ validationItems = {}

\* updateLlapConfigs called on its own
CallUpdateLlapConfigs ==
  /\ lastOp = "init"
  /\ \E written \in PendingChoices :
       LET result == updateLlapConfigs(
                       services, [EmptyConfigurations EXCEPT !.num = written], hosts)
       IN  /\ pending' = written
           /\ configurations' = result.cfg
           /\ outcome' = IF result.ok THEN "returned" ELSE "raised"
  /\ steps' = steps + 1
  /\ lastOp' = "update"
  /\ UNCHANGED <<services, hosts, validationItems>>

\* the whole cycle on the same inputs
CallRecommendYARNConfigurations ==
  /\ lastOp = "init"
  /\ \E written \in PendingChoices :
       LET result == recommendYARNConfigurations(
                       services, [EmptyConfigurations EXCEPT !.num = written], hosts)
       IN  /\ pending' = written
           /\ configurations' = result.cfg
           /\ outcome' = IF result.ok THEN "returned" ELSE "raised"
  /\ steps' = steps + 1
  /\ lastOp' = "cycle"
  /\ UNCHANGED <<services, hosts, validationItems>>

\* the validation of hive-interactive-site on the same inputs
CallValidateHiveInteractiveSiteConfigurations ==
  /\ lastOp = "init"
  /\ \E written \in PendingChoices :
       LET result == validateHiveInteractiveSiteConfigurations(
                       services, [EmptyConfigurations EXCEPT !.num = written], hosts)
       IN  /\ pending' = written
           /\ validationItems' = IF result.ok THEN result.v ELSE {}
           /\ outcome' = IF result.ok THEN "returned" ELSE "raised"
  /\ steps' = steps + 1
  /\ lastOp' = "validate"
  /\ UNCHANGED <<services, hosts, configurations>>

EngineNext ==
  \/ CallUpdateLlapConfigs
  \/ CallRecommendYARNConfigurations
  \/ CallValidateHiveInteractiveSiteConfigurations

EngineSpec == EngineInit /\ [][EngineNext]_vars

-----------------------------------------------------------------------------
(* What a cycle read and what it emitted                                   *)

\* the latest step was a recommendation cycle: services is what it read and
\* configurations is what it wrote
CycleDone == lastOp = "recommend"

FeatureOn == services.str[ENABLE_HIVE_INTERACTIVE] = "true"

\* the queue tree the cycle read
InputTree == getCapacitySchedulerProperties(services).props

InputLeaves == getAllYarnLeafQueues(InputTree)

\* the cycle wrote capacity-scheduler properties
EmittedCapSched ==
  configurations.capSched.blob # <<>> \/ DOMAIN configurations.capSched.flat # {}

\* the capacity-scheduler properties the cycle wrote, as a dictionary
EmittedTree ==
  IF configurations.capSched.blob # <<>>
  THEN ParseLines(configurations.capSched.blob)
  ELSE configurations.capSched.flat

CapacityOf(tree, queue) == IntOf(tree[<<queue, "capacity">>])

RECURSIVE SumOfCapacities(_, _)
SumOfCapacities(tree, queues) ==
  IF queues = {} THEN 0
  ELSE LET q == CHOOSE x \in queues : TRUE
       IN  CapacityOf(tree, q) + SumOfCapacities(tree, queues \ {q})

\* the sum of the capacities of the children of root
SiblingSum(tree) == SumOfCapacities(tree, getAllYarnLeafQueues(tree))

\* llap_queue_capacity as the cycle read it
Requested == services.num[LLAP_QUEUE_CAPACITY]

\* 'Minimum Required LLAP queue capacity' of the cycle, at most 100
MinRequiredPercent ==
  Min(min_queue_perc_reqd_for_llap_and_hive_app(
        services, hosts, [EmptyConfigurations EXCEPT !.num = pending]).v, 100)

\* the inputs of the four transitions
EnableCase ==
  /\ FeatureOn /\ InputLeaves = {"default"}
  /\ InputTree[<<"default", "capacity">>] = "100"

ResumeCase ==
  /\ FeatureOn /\ InputLeaves = {"default", "llap"}
  /\ InputTree[<<"llap", "state">>] = "STOPPED"
  /\ ENABLE_HIVE_INTERACTIVE \in services.changed

RunningCase ==
  /\ FeatureOn /\ InputLeaves = {"default", "llap"}
  /\ InputTree[<<"llap", "state">>] = "RUNNING"

StopCase ==
  /\ ~FeatureOn /\ InputLeaves = {"default", "llap"}
  /\ InputTree[<<"llap", "state">>] = "RUNNING"

-----------------------------------------------------------------------------
(* Queue lifecycle                                                         *)

\* C1: after a cycle that started from a queue tree whose sibling capacities
\* sum to 100 and in which the queue manager made a transition (enable, adjust,
\* resume or stop), the emitted capacity-scheduler has 'default' and 'llap' as
\* the children of root and their capacities sum to exactly 100.
C1_SiblingCapacitiesSumTo100 ==
  (CycleDone /\ EmittedCapSched /\ SiblingSum(InputTree) = 100) =>
    /\ getAllYarnLeafQueues(EmittedTree) = {"default", "llap"}
    /\ CapacityOf(EmittedTree, "default") + CapacityOf(EmittedTree, "llap") = 100

\* an adjust transition from {default 70, llap 30} to {default 50, llap 50}
C1_Witness ==
  /\ CycleDone /\ EmittedCapSched /\ SiblingSum(InputTree) = 100
  /\ RunningCase /\ CapacityOf(InputTree, "llap") = 30
  /\ CapacityOf(EmittedTree, "llap") = 50
  /\ CapacityOf(EmittedTree, "default") = 50

\* C2: enable.  When 'default' is the only leaf queue and holds 100%, the
\* feature is on and minRequiredPercent <= p <= 100 for the requested
\* percentage p, the cycle emits 'llap' with capacity = maximum-capacity = p,
\* state RUNNING and the fixed policy attributes, 'default' with capacity
\* 100 - p, and root.queues = 'default,llap'.
C2_EnableCreatesLlapQueue ==
  (CycleDone /\ EnableCase /\ MinRequiredPercent <= Requested /\ Requested <= 100) =>
    /\ EmittedCapSched
    /\ EmittedTree[ROOT_QUEUES] = "default,llap"
    /\ EmittedTree[<<"llap", "capacity">>] = Str(Requested)
    /\ EmittedTree[<<"llap", "maximum-capacity">>] = Str(Requested)
    /\ EmittedTree[<<"llap", "state">>] = "RUNNING"
    /\ EmittedTree[<<"default", "capacity">>] = Str(100 - Requested)
    /\ EmittedTree[<<"llap", "user-limit-factor">>] = "1"
    /\ EmittedTree[<<"llap", "ordering-policy">>] = "fifo"
    /\ EmittedTree[<<"llap", "minimum-user-limit-percent">>] = "100"
    /\ EmittedTree[<<"llap", "acl_submit_applications">>] = services.str[HIVE_USER]
    /\ EmittedTree[<<"llap", "acl_administer_queue">>] = services.str[HIVE_USER]
    /\ EmittedTree[<<"llap", "maximum-am-resource-percent">>] = "1"

\* p = 30 with minRequiredPercent = 25: llap 30% RUNNING, default 70%
C2_Witness ==
  /\ CycleDone /\ EnableCase /\ Requested = 30 /\ MinRequiredPercent = 25
  /\ EmittedTree[<<"llap", "capacity">>] = "30"
  /\ EmittedTree[<<"llap", "state">>] = "RUNNING"
  /\ EmittedTree[<<"default", "capacity">>] = "70"

\* C3 as stated: on enable and on resume the capacity written for 'llap' is
\* at least minRequiredPercent and at most 100, whatever was requested.
C3_AsStated ==
  (CycleDone /\ (EnableCase \/ ResumeCase) /\ EmittedCapSched) =>
    /\ CapacityOf(EmittedTree, "llap") >= MinRequiredPercent
    /\ CapacityOf(EmittedTree, "llap") <= 100

\* C3: on enable and on resume only a request outside 1..100 is replaced, by
\* minRequiredPercent (itself at most 100); a request within 1..100 is
\* written as it is, also when it is below minRequiredPercent.  The capacity
\* written for 'llap' is within 1..100.
C3_OnlyOutOfBoundsRequestsAreReplaced ==
  (CycleDone /\ (EnableCase \/ ResumeCase)) =>
    /\ EmittedCapSched
    /\ CapacityOf(EmittedTree, "llap") =
         (IF Requested >= 1 /\ Requested <= 100 THEN Requested ELSE MinRequiredPercent)
    /\ CapacityOf(EmittedTree, "llap") \in 1..100

\* a request of 5 below minRequiredPercent is written as 5
C3_Witness ==
  /\ CycleDone /\ EnableCase /\ EmittedCapSched
  /\ Requested = 5 /\ MinRequiredPercent > 5
  /\ CapacityOf(EmittedTree, "llap") = 5

\* the cycle wrote nothing: configurations is as the cycle found it
NothingWritten == configurations = [EmptyConfigurations EXCEPT !.num = pending]

\* C4: stop.  When the feature is off and the leaf queues are 'default' and
\* 'llap' with llap RUNNING, the cycle emits llap with capacity 0,
\* maximum-capacity 0 and state STOPPED, and default with capacity 100 and
\* maximum-capacity 100; when llap is already STOPPED the cycle writes nothing.
C4_StopZeroesLlapQueue ==
  /\ (CycleDone /\ StopCase) =>
       /\ EmittedCapSched
       /\ EmittedTree[<<"llap", "capacity">>] = "0"
       /\ EmittedTree[<<"llap", "maximum-capacity">>] = "0"
       /\ EmittedTree[<<"llap", "state">>] = "STOPPED"
       /\ EmittedTree[<<"default", "capacity">>] = "100"
       /\ EmittedTree[<<"default", "maximum-capacity">>] = "100"
  /\ (CycleDone /\ ~FeatureOn /\ InputLeaves = {"default", "llap"}
        /\ InputTree[<<"llap", "state">>] = "STOPPED") => NothingWritten

\* {default 70, llap 30 RUNNING} becomes {default 100/100, llap 0/0 STOPPED}
C4_Witness ==
  /\ CycleDone /\ StopCase
  /\ InputTree[<<"default", "capacity">>] = "70"
  /\ InputTree[<<"llap", "capacity">>] = "30"
  /\ EmittedTree[<<"llap", "state">>] = "STOPPED"
  /\ EmittedTree[<<"llap", "maximum-capacity">>] = "0"
  /\ EmittedTree[<<"default", "maximum-capacity">>] = "100"

\* the requested percentage clamped into [minRequiredPercent, 100]
ClampedRequest ==
  IF Requested < MinRequiredPercent THEN MinRequiredPercent
  ELSE IF Requested > 100 THEN 100 ELSE Requested

\* the requested percentage after the adjustment the queue manager makes:
\* a request outside 1..100 is replaced by minRequiredPercent
EffectiveRequest ==
  IF Requested >= 1 /\ Requested <= 100 THEN Requested ELSE MinRequiredPercent

\* a STOPPED llap queue in a cycle where enable_hive_interactive did not change
StoppedAndNotReenabled ==
  /\ FeatureOn /\ InputLeaves = {"default", "llap"}
  /\ InputTree[<<"llap", "state">>] = "STOPPED"
  /\ ENABLE_HIVE_INTERACTIVE \notin services.changed

\* C5 as stated: on resume llap becomes RUNNING with the requested percentage
\* clamped into [minRequiredPercent, 100] and default gets the complement; a
\* STOPPED queue is not resumed when enable_hive_interactive did not change.
C5_AsStated ==
  /\ (CycleDone /\ ResumeCase) =>
       /\ EmittedCapSched
       /\ EmittedTree[<<"llap", "state">>] = "RUNNING"
       /\ EmittedTree[<<"llap", "capacity">>] = Str(ClampedRequest)
       /\ EmittedTree[<<"default", "capacity">>] = Str(100 - ClampedRequest)
  /\ (CycleDone /\ StoppedAndNotReenabled) => ~EmittedCapSched

\* C5: on resume llap becomes RUNNING with the requested percentage when it
\* is within 1..100 (also when it is below minRequiredPercent) and with
\* minRequiredPercent otherwise, and default gets the complement; a STOPPED
\* queue is not resumed when enable_hive_interactive did not change.
C5_ResumeAppliesAdjustedRequest ==
  /\ (CycleDone /\ ResumeCase) =>
       /\ EmittedCapSched
       /\ EmittedTree[<<"llap", "state">>] = "RUNNING"
       /\ EmittedTree[<<"llap", "capacity">>] = Str(EffectiveRequest)
       /\ EmittedTree[<<"default", "capacity">>] = Str(100 - EffectiveRequest)
  /\ (CycleDone /\ StoppedAndNotReenabled) => ~EmittedCapSched

\* a resume with a request of 5, below minRequiredPercent: llap RUNNING at 5
C5_Witness ==
  /\ CycleDone /\ ResumeCase /\ Requested = 5 /\ MinRequiredPercent > 5
  /\ EmittedTree[<<"llap", "state">>] = "RUNNING"
  /\ EmittedTree[<<"llap", "capacity">>] = "5"
  /\ EmittedTree[<<"default", "capacity">>] = "95"

Unmanaged ==
  /\ ~(InputLeaves = {"default"} /\ InputTree[<<"default", "capacity">>] = "100")
  /\ InputLeaves # {"default", "llap"}

\* C7: on a topology other than 'default' alone at 100% or exactly 'default'
\* and 'llap', the cycle, feature on or off, writes no capacity-scheduler
\* property and does not write hive.llap.daemon.queue.name.
C7_UnmanagedTopologyUntouched ==
  (CycleDone /\ Unmanaged) =>
    /\ ~EmittedCapSched
    /\ ~Has(configurations.str, DAEMON_QUEUE_NAME)

\* three leaf queues, the feature on and a changed slider: nothing emitted
C7_Witness ==
  /\ CycleDone /\ Unmanaged /\ FeatureOn
  /\ InputLeaves = {"default", "llap", "other"}
  /\ LLAP_QUEUE_CAPACITY \in services.changed
  /\ Requested # CapacityOf(InputTree, "llap")
  /\ ~EmittedCapSched

\* the cycle read the queue tree as a flat key-to-value mapping
ReceivedAsKeyValuePair == getCapacitySchedulerProperties(services).kv

\* C8 as stated: whenever the cycle emits capacity-scheduler updates, they are
\* individual properties if the tree was read as a flat mapping and one text
\* under 'capacity-scheduler' if it was read as one text.
C8_AsStated ==
  (CycleDone /\ EmittedCapSched) =>
    IF ReceivedAsKeyValuePair
    THEN configurations.capSched.blob = <<>>
    ELSE DOMAIN configurations.capSched.flat = {}

\* a stop of a tree read as a flat mapping emits one text
C8_Witness ==
  /\ CycleDone /\ StopCase /\ ReceivedAsKeyValuePair
  /\ configurations.capSched.blob # <<>>
  /\ DOMAIN configurations.capSched.flat = {}

-----------------------------------------------------------------------------
(* Sizing                                                                  *)

\* the cycle wrote a fully computed plan (the fallback does not write
\* tez.am.resource.memory.mb)
PlanWritten == CycleDone /\ Has(configurations.num, TEZ_AM_MEMORY)

\* hive.tez.container.size as the cycle read it
PerExecutorContainerMb ==
  IF Has(pending, HIVE_TEZ_CONTAINER) THEN pending[HIVE_TEZ_CONTAINER]
  ELSE services.num[HIVE_TEZ_CONTAINER]

\* C9: in every fully computed plan, hive.llap.daemon.num.executors *
\* hive.tez.container.size + hive.llap.io.memory.size equals
\* hive.llap.daemon.yarn.container.mb.
C9_ExactAccounting ==
  PlanWritten =>
    configurations.num[DAEMON_NUM_EXECUTORS] * PerExecutorContainerMb
      + configurations.num[IO_MEMORY_SIZE]
    = configurations.num[DAEMON_CONTAINER_MB]

\* a plan with executors and a cache: 8 * 1536 + 8192 = 20480
C9_Witness ==
  /\ PlanWritten
  /\ PerExecutorContainerMb = 1536
  /\ configurations.num[DAEMON_NUM_EXECUTORS] = 8
  /\ configurations.num[IO_MEMORY_SIZE] = 8192
  /\ configurations.num[DAEMON_CONTAINER_MB] = 20480

\* the fields of a plan
PlanFields ==
  { TEZ_AM_MEMORY, SESSIONS_PER_QUEUE, NUM_LLAP_NODES, NUM_LLAP_NODES_COPY,
    DAEMON_CONTAINER_MB, DAEMON_CONTAINER_MB_COPY, DAEMON_NUM_EXECUTORS,
    DAEMON_NUM_EXECUTORS_COPY, IO_THREADPOOL_SIZE, IO_MEMORY_SIZE,
    IO_MEMORY_SIZE_COPY, LLAP_HEAP_SIZE, SLIDER_AM_SIZE }

\* the selected queue exists and is not STOPPED: the cycle gets as far as the
\* check of the changed fields
GateReached ==
  /\ FeatureOn /\ outcome = "returned"
  /\ Has(InputTree, <<services.str[DAEMON_QUEUE_NAME], "state">>)
  /\ InputTree[<<services.str[DAEMON_QUEUE_NAME], "state">>] # "STOPPED"

\* C10 as stated: a cycle in which no tracked field is in the changed set
\* writes no plan field, in particular not hive.llap.daemon.yarn.container.mb.
C10_AsStated ==
  (CycleDone /\ GateReached /\ ~TrackedChanged(services)) =>
    /\ PlanFields \cap DOMAIN configurations.num = {}
    /\ ~Has(configurations.str, IO_ENABLED)

\* a second cycle without a tracked change replaces the container size 20480
\* of the saved plan by the minimum container size 1024
C10_Witness ==
  /\ CycleDone /\ GateReached /\ ~TrackedChanged(services)
  /\ Has(services.num, TEZ_AM_MEMORY)
  /\ services.num[DAEMON_CONTAINER_MB] = 20480
  /\ configurations.num[DAEMON_CONTAINER_MB] = 1024

-----------------------------------------------------------------------------
(* The sizing engine on its inputs                                         *)

\* updateLlapConfigs has been called on its own: services, hosts and pending
\* are what it read, configurations is what it left behind
EngineDone == lastOp = "update"

\* the configurations object the call started from
StartConfigurations == [EmptyConfigurations EXCEPT !.num = pending]

\* yarn.scheduler.minimum-allocation-mb as the call read it
MinContainerMb == get_yarn_min_container_size(services, StartConfigurations)

\* hive.llap.daemon.queue.name as the call read it ("" when missing)
SelectedQueue ==
  IF Has(services.str, DAEMON_QUEUE_NAME) THEN services.str[DAEMON_QUEUE_NAME] ELSE ""

\* the selected queue has a state in the tree and that state is not STOPPED
SelectedQueueRuns ==
  /\ SelectedQueue # ""
  /\ Has(InputTree, <<SelectedQueue, "state">>)
  /\ InputTree[<<SelectedQueue, "state">>] # "STOPPED"

\* the engine gets as far as its try block and can read the queue tree
EngineStarts == MinContainerMb.ok /\ DOMAIN InputTree # {}

\* the calculation the call makes when the gate is open
EnginePlan ==
  ComputePlan(services,
              putNum(StartConfigurations, HIVE_INTERACTIVE_SITE,
                     "hive.llap.daemon.yarn.container.mb", MinContainerMb.v),
              hosts, InputTree, SelectedQueue, "",
              are_config_props_in_changed_configs(
                services, HIVE_INTERACTIVE_SITE,
                {"hive.server2.tez.sessions.per.default.queue"}, FALSE))

\* an infeasible input set: the selected queue is missing or STOPPED, or the
\* gate is open and a step of the calculation fails
InfeasibleInput ==
  /\ EngineStarts
  /\ \/ ~SelectedQueueRuns
     \/ TrackedChanged(services) /\ ~EnginePlan.ok

\* the default plan of the except block, with every display copy
DefaultPlanEmitted ==
  /\ { SESSIONS_PER_QUEUE, NUM_LLAP_NODES, NUM_LLAP_NODES_COPY, DAEMON_CONTAINER_MB,
       DAEMON_CONTAINER_MB_COPY, DAEMON_NUM_EXECUTORS, DAEMON_NUM_EXECUTORS_COPY,
       IO_THREADPOOL_SIZE, IO_MEMORY_SIZE, IO_MEMORY_SIZE_COPY, LLAP_HEAP_SIZE,
       SLIDER_AM_SIZE } \subseteq DOMAIN configurations.num
  /\ configurations.num[SESSIONS_PER_QUEUE] = 1
  /\ configurations.attrNum[<<SESSIONS_PER_QUEUE[1], SESSIONS_PER_QUEUE[2], "minimum">>] = 1
  /\ configurations.attrNum[<<SESSIONS_PER_QUEUE[1], SESSIONS_PER_QUEUE[2], "maximum">>] = 32
  /\ \A nodes \in {NUM_LLAP_NODES, NUM_LLAP_NODES_COPY} :
       /\ configurations.num[nodes] = 0
       /\ configurations.attrNum[<<nodes[1], nodes[2], "minimum">>] = 1
       /\ configurations.attrNum[<<nodes[1], nodes[2], "maximum">>] = hosts.nodemanagers
  /\ \A mb \in {DAEMON_CONTAINER_MB, DAEMON_CONTAINER_MB_COPY} :
       configurations.num[mb] = MinContainerMb.v
  /\ \A executors \in {DAEMON_NUM_EXECUTORS, DAEMON_NUM_EXECUTORS_COPY} :
       /\ configurations.num[executors] = 0
       /\ configurations.attrNum[<<executors[1], executors[2], "minimum">>] = 1
  /\ configurations.num[IO_MEMORY_SIZE] = 0
  /\ configurations.num[IO_MEMORY_SIZE_COPY] = 0
  /\ configurations.num[LLAP_HEAP_SIZE] = 0
  /\ configurations.num[SLIDER_AM_SIZE] = calculate_slider_am_size(MinContainerMb.v)

\* C11 as stated: on every infeasible input set (the empty host list among
\* them) updateLlapConfigs emits exactly the default plan: concurrency 1 in
\* [1, 32], 0 nodes in [1, nodeCount], the minimum container, 0 executors with
\* minimum 1, no cache, no heap, the slider AM size of the minimum container,
\* every display copy equal to its primary.
C11_AsStated == (EngineDone /\ InfeasibleInput) => DefaultPlanEmitted

\* the hosts list is empty and a tracked field changed: the call returns and
\* leaves no field of the default plan behind
C11_Witness ==
  /\ EngineDone /\ InfeasibleInput /\ outcome = "returned"
  /\ hosts.items = 0
  /\ SelectedQueueRuns /\ TrackedChanged(services)
  /\ ~Has(configurations.num, NUM_LLAP_NODES)
  /\ ~Has(configurations.num, SESSIONS_PER_QUEUE)

\* C12 as stated: updateLlapConfigs returns normally on every input, also
\* when yarn.scheduler.minimum-allocation-mb cannot be retrieved or is not
\* positive; no exception reaches its caller.
C12_AsStated == EngineDone => outcome = "returned"

\* the minimum allocation is missing (or 0) in services and not pending: the
\* read before the try block raises, after the slider visibility was written
C12_Witness ==
  /\ EngineDone /\ outcome = "raised"
  /\ ~MinContainerMb.ok
  /\ ~Has(pending, YARN_MIN_ALLOC)
  /\ ~Has(configurations.num, DAEMON_CONTAINER_MB)

-----------------------------------------------------------------------------
(* One plan or the other                                                   *)

\* what is in effect once the recommendations of the cycle are applied to the
\* persisted properties
Effective ==
  [ num |-> Merge(services.num, configurations.num),
    str |-> Merge(services.str, configurations.str) ]

\* the cycle wrote the default values of the except block
FallbackWritten ==
  /\ CycleDone /\ outcome = "returned"
  /\ Has(configurations.num, NUM_LLAP_NODES)
  /\ ~Has(configurations.num, TEZ_AM_MEMORY)

\* C13 as stated: after a cycle that writes a plan, the sizing fields in effect
\* are all of the computed plan or all of the fallback plan; beside the
\* fallback plan no tez.am.resource.memory.mb and no hive.llap.io.enabled of
\* an earlier computed plan stays in effect.
C13_AsStated ==
  /\ PlanWritten =>
       /\ (PlanFields \ {SESSIONS_PER_QUEUE}) \subseteq DOMAIN configurations.num
       /\ Has(configurations.str, IO_ENABLED)
  /\ FallbackWritten =>
       /\ ~Has(Effective.num, TEZ_AM_MEMORY)
       /\ ~Has(Effective.str, IO_ENABLED)

\* a cycle wrote a plan with a cache of 512 MB, the plan was saved, the
\* operator lowered the capacity and the next cycle wrote the fallback: the
\* cache size in effect is 0 while hive.llap.io.enabled is still 'true' and
\* tez.am.resource.memory.mb is still 512
C13_Witness ==
  /\ FallbackWritten
  /\ Effective.num[IO_MEMORY_SIZE] = 0
  /\ Effective.num[NUM_LLAP_NODES] = 0
  /\ Has(Effective.str, IO_ENABLED) /\ Effective.str[IO_ENABLED] = "true"
  /\ Has(Effective.num, TEZ_AM_MEMORY) /\ Effective.num[TEZ_AM_MEMORY] = 512
  /\ LLAP_QUEUE_CAPACITY \in services.changed

-----------------------------------------------------------------------------
(* The selected queue                                                      *)

-----------------------------------------------------------------------------
(* Zero cluster capacity                                                   *)

\* C15 as stated: when the total cluster capacity is zero (hosts are known,
\* none of them runs a NodeManager) and the calculation is reached, the call
\* is aborted with an error and no plan field is written.
C15_AsStated ==
  ( /\ lastOp \in {"update", "cycle"}
    /\ EngineStarts /\ SelectedQueueRuns /\ TrackedChanged(services)
    /\ hosts.items > 0 /\ hosts.nodemanagers = 0 ) =>
    /\ outcome = "raised"
    /\ PlanFields \cap DOMAIN configurations.num = {}

\* a whole cycle on a cluster without NodeManagers, llap_queue_capacity not
\* set, queue 'default' selected: the Fail of calculate_tez_am_container_size
\* is caught and the default plan is written, with 0 as maximum of
\* num_llap_nodes
C15_Witness ==
  /\ lastOp = "cycle" /\ outcome = "returned"
  /\ EngineStarts /\ SelectedQueueRuns /\ TrackedChanged(services)
  /\ hosts.items > 0 /\ hosts.nodemanagers = 0
  /\ SelectedQueue = "default"
  /\ ~Has(services.num, LLAP_QUEUE_CAPACITY)
  /\ DefaultPlanEmitted
  /\ configurations.attrNum[<<NUM_LLAP_NODES[1], NUM_LLAP_NODES[2], "maximum">>] = 0

-----------------------------------------------------------------------------
(* The minimum required percentage at its callers                          *)

\* C16 as stated: the minimum required percentage lies in [20, 100] at every
\* caller: as the minimum of the llap_queue_capacity slider the queue manager
\* writes, and in the message of the validation of hive-interactive-site.
C16_AsStated ==
  /\ \A item \in validationItems :
       "required" \in DOMAIN item => item.required \in 20..100
  /\ LET minimum == <<LLAP_QUEUE_CAPACITY[1], LLAP_QUEUE_CAPACITY[2], "minimum">>
     IN  (lastOp = "cycle" /\ Has(configurations.attrNum, minimum)) =>
           configurations.attrNum[minimum] \in 20..100

\* one NodeManager of 2048 MB, minimum allocation 1024, hive.tez.container.size
\* 1024: the three containers need 3072 MB, and the validation reports a
\* minimum required capacity of 150 percent against the 30 of queue llap
C16_Witness ==
  /\ lastOp = "validate" /\ outcome = "returned"
  /\ hosts.nodemanagers = 1
  /\ services.num[YARN_NM_MEM] = 2048
  /\ [name |-> "hive.llap.daemon.queue.name", capacity |-> 30, required |-> 150]
       \in validationItems

-----------------------------------------------------------------------------
(* The change gate                                                         *)

\* C17: for every config type and every set of names,
\* are_config_props_in_changed_configs with all_exists = False is true iff
\* some name of the set is among the changed properties of that type, whatever
\* changed in other types; with all_exists = True it is true iff every name
\* of the set is.
C17_ChangeGate ==
  \A type \in {"hive-interactive-env", HIVE_INTERACTIVE_SITE, "hive-env"} :
    \A names \in SUBSET {"llap_queue_capacity", "enable_hive_interactive",
                         "hive.llap.daemon.queue.name", "hive_user"} :
      /\ are_config_props_in_changed_configs(services, type, names, FALSE)
           <=> (\E name \in names : <<type, name>> \in services.changed)
      /\ are_config_props_in_changed_configs(services, type, names, TRUE)
           <=> (\A name \in names : <<type, name>> \in services.changed)

\* hive_user and llap_queue_capacity were edited: for hive-interactive-env and
\* the two names of the engine the any-of answer is true and the all-of answer
\* false, for hive-env both are false, and the cycle computed a plan
C17_Witness ==
  /\ CycleDone /\ PlanWritten
  /\ services.changed = {HIVE_USER, LLAP_QUEUE_CAPACITY}
  /\ are_config_props_in_changed_configs(
       services, "hive-interactive-env",
       {"llap_queue_capacity", "enable_hive_interactive"}, FALSE)
  /\ ~are_config_props_in_changed_configs(
        services, "hive-interactive-env",
        {"llap_queue_capacity", "enable_hive_interactive"}, TRUE)
  /\ ~are_config_props_in_changed_configs(
        services, "hive-env", {"llap_queue_capacity", "enable_hive_interactive"}, FALSE)

-----------------------------------------------------------------------------
(* Concurrency                                                             *)

\* the size of the selected queue in MB as the call computed it
TotalQueueMb ==
  total_llap_queue_size_of(
    CurrentSelectedQueueCap(services, StartConfigurations, InputTree, SelectedQueue, "").v,
    hosts.nodemanagers * services.num[YARN_NM_MEM], MinContainerMb.v)

-----------------------------------------------------------------------------
(* Worked scenarios                                                        *)

\* the cluster of the scenarios: 10 NodeManagers of 20480 MB with 8 vcores,
\* minimum container 1024, hive.tez.container.size 4096, queue llap selected
\* and running, the capacity just edited, no explicit concurrency
ScenarioCluster ==
  /\ EngineDone /\ pending = EmptyStore
  /\ hosts = [items |-> 10, nodemanagers |-> 10]
  /\ {YARN_NM_MEM, YARN_MIN_ALLOC, HIVE_TEZ_CONTAINER, YARN_NM_VCORES, LLAP_QUEUE_CAPACITY}
       \subseteq DOMAIN services.num
  /\ services.num[YARN_NM_MEM] = 20480
  /\ services.num[YARN_MIN_ALLOC] = 1024
  /\ services.num[HIVE_TEZ_CONTAINER] = 4096
  /\ services.num[YARN_NM_VCORES] = 8
  /\ SelectedQueue = "llap" /\ SelectedQueueRuns
  /\ services.changed = {LLAP_QUEUE_CAPACITY}

\* C19 as stated: Scenario A (capacity 20) gives tez AM 1536, queue 40960,
\* slider AM 1024, concurrency 6, AMs 10240, daemons 30720, 1 node, container
\* 20480, 5 executors, cache 0, io disabled.
C19_AsStated ==
  (ScenarioCluster /\ services.num[LLAP_QUEUE_CAPACITY] = 20) =>
    /\ outcome = "returned"
    /\ Has(configurations.num, TEZ_AM_MEMORY)
    /\ configurations.num[TEZ_AM_MEMORY] = 1536
    /\ TotalQueueMb = 40960
    /\ configurations.num[SLIDER_AM_SIZE] = 1024
    /\ configurations.num[SESSIONS_PER_QUEUE] = 6
    /\ configurations.num[TEZ_AM_MEMORY] * configurations.num[SESSIONS_PER_QUEUE]
         + configurations.num[SLIDER_AM_SIZE] = 10240
    /\ configurations.num[NUM_LLAP_NODES] = 1
    /\ configurations.num[DAEMON_CONTAINER_MB] = 20480
    /\ configurations.num[DAEMON_NUM_EXECUTORS] = 5
    /\ configurations.num[IO_MEMORY_SIZE] = 0
    /\ configurations.str[IO_ENABLED] = "false"

\* C19: Scenario A gives tez AM 2048 (1536 rounded up to a multiple of 1024),
\* queue 40960, slider AM 1024, concurrency 5, AMs 11264, daemons 29696,
\* 1 node, container 20480, 5 executors, cache 0, io disabled.
C19_ScenarioA ==
  (ScenarioCluster /\ services.num[LLAP_QUEUE_CAPACITY] = 20) =>
    /\ outcome = "returned"
    /\ Has(configurations.num, TEZ_AM_MEMORY)
    /\ configurations.num[TEZ_AM_MEMORY] = 2048
    /\ TotalQueueMb = 40960
    /\ configurations.num[SLIDER_AM_SIZE] = 1024
    /\ configurations.num[SESSIONS_PER_QUEUE] = 5
    /\ configurations.num[TEZ_AM_MEMORY] * configurations.num[SESSIONS_PER_QUEUE]
         + configurations.num[SLIDER_AM_SIZE] = 11264
    /\ TotalQueueMb - 11264 = 29696
    /\ EnginePlan.v.tez_am = 2048 /\ EnginePlan.v.llap_concurrency = 5
    /\ configurations.num[NUM_LLAP_NODES] = 1
    /\ configurations.num[NUM_LLAP_NODES_COPY] = 1
    /\ configurations.num[DAEMON_CONTAINER_MB] = 20480
    /\ configurations.num[DAEMON_NUM_EXECUTORS] = 5
    /\ configurations.num[IO_MEMORY_SIZE] = 0
    /\ configurations.str[IO_ENABLED] = "false"

\* the call on Scenario A has written its plan: tez AM 2048, 5 sessions
C19_Witness ==
  /\ ScenarioCluster /\ services.num[LLAP_QUEUE_CAPACITY] = 20
  /\ outcome = "returned"
  /\ Has(configurations.num, TEZ_AM_MEMORY)
  /\ configurations.num[TEZ_AM_MEMORY] = 2048
  /\ configurations.num[SESSIONS_PER_QUEUE] = 5
  /\ configurations.num[DAEMON_NUM_EXECUTORS] = 5

\* C20 as stated: Scenario B (capacity 5) leaves less than the minimum
\* container for daemons and gives the fallback plan: 0 nodes with bounds
\* [1, 10], 0 executors with minimum 1, cache 0, heap 0.
C20_AsStated ==
  (ScenarioCluster /\ services.num[LLAP_QUEUE_CAPACITY] = 5) =>
    /\ outcome = "returned"
    /\ ~EnginePlan.ok
    /\ DefaultPlanEmitted

\* C20: Scenario B gives a computed plan: queue 10240, tez AM 2048, concurrency
\* 1, AMs 3072, daemons 7168 (not below the minimum container 1024), 1 node,
\* container 7168, 1 executor, cache 3072, io enabled, heap 3276.
C20_ScenarioB ==
  (ScenarioCluster /\ services.num[LLAP_QUEUE_CAPACITY] = 5) =>
    /\ outcome = "returned"
    /\ EnginePlan.ok
    /\ TotalQueueMb = 10240
    /\ Has(configurations.num, TEZ_AM_MEMORY)
    /\ configurations.num[TEZ_AM_MEMORY] = 2048
    /\ configurations.num[SESSIONS_PER_QUEUE] = 1
    /\ configurations.num[SLIDER_AM_SIZE] = 1024
    /\ TotalQueueMb - (2048 * 1 + 1024) = 7168
    /\ configurations.num[NUM_LLAP_NODES] = 1
    /\ configurations.num[DAEMON_CONTAINER_MB] = 7168
    /\ configurations.num[DAEMON_NUM_EXECUTORS] = 1
    /\ configurations.num[IO_MEMORY_SIZE] = 3072
    /\ configurations.str[IO_ENABLED] = "true"
    /\ configurations.num[LLAP_HEAP_SIZE] = 3276

\* the call on Scenario B has written a computed plan with one node of 7168 MB
C20_Witness ==
  /\ ScenarioCluster /\ services.num[LLAP_QUEUE_CAPACITY] = 5
  /\ outcome = "returned"
  /\ Has(configurations.num, TEZ_AM_MEMORY)
  /\ configurations.num[NUM_LLAP_NODES] = 1
  /\ configurations.num[DAEMON_CONTAINER_MB] = 7168
  /\ configurations.num[IO_MEMORY_SIZE] = 3072

-----------------------------------------------------------------------------
(* Pending and persisted values                                            *)

\* the configurations object as the queue manager hands it to the engine
ManagedConfigurations ==
  checkAndManageLlapQueue(services, StartConfigurations, hosts).cfg

\* the persisted state with every value the cycle has pending laid over it:
\* the properties the queue manager wrote, the queue tree it wrote
PendingOverPersisted ==
  [ services EXCEPT
      !.num = Merge(@, ManagedConfigurations.num),
      !.str = Merge(@, ManagedConfigurations.str),
      !.capSched = IF ManagedConfigurations.capSched.blob # <<>>
                      \/ DOMAIN ManagedConfigurations.capSched.flat # {}
                   THEN ManagedConfigurations.capSched
                   ELSE @ ]

\* C21 as stated: the engine uses the pending value of each of its inputs
\* when there is one: what a cycle writes is what the engine writes when it
\* reads the pending values laid over the persisted ones.
C21_AsStated ==
  (CycleDone /\ FeatureOn /\ outcome = "returned") =>
    configurations
      = updateLlapConfigs(PendingOverPersisted, ManagedConfigurations, hosts).cfg

\* the operator asked for 150 percent, the queue manager replaced the request
\* by the minimum required percentage in the pending view, and the engine
\* sized the plan for the persisted 150: more daemons than NodeManagers
C21_Witness ==
  /\ CycleDone /\ FeatureOn /\ PlanWritten
  /\ services.num[LLAP_QUEUE_CAPACITY] = 150
  /\ Has(configurations.num, LLAP_QUEUE_CAPACITY)
  /\ configurations.num[LLAP_QUEUE_CAPACITY] = MinRequiredPercent
  /\ SelectedQueue = "llap"
  /\ configurations.num[NUM_LLAP_NODES] > hosts.nodemanagers

-----------------------------------------------------------------------------
(* Display copies                                                          *)

\* C22 as stated: in what a recommendation leaves behind, each display copy
\* that is written equals its primary, and no primary is written without
\* its copy; also when recommendHIVEConfigurations took part.
C22_AsStated ==
  (lastOp \in {"recommend", "recommend both"} /\ outcome = "returned") =>
    \A pair \in { <<NUM_LLAP_NODES, NUM_LLAP_NODES_COPY>>,
                  <<DAEMON_CONTAINER_MB, DAEMON_CONTAINER_MB_COPY>>,
                  <<DAEMON_NUM_EXECUTORS, DAEMON_NUM_EXECUTORS_COPY>>,
                  <<IO_MEMORY_SIZE, IO_MEMORY_SIZE_COPY>> } :
      Has(configurations.num, pair[1]) =>
        /\ Has(configurations.num, pair[2])
        /\ configurations.num[pair[2]] = configurations.num[pair[1]]

\* a plan was saved and nothing was changed since: the recommendation sets
\* the container size back to the minimum container while the copy still
\* shows the saved container size
C22_Witness ==
  /\ lastOp = "recommend both" /\ outcome = "returned"
  /\ services.changed = {}
  /\ Has(services.num, DAEMON_CONTAINER_MB)
  /\ Has(configurations.num, DAEMON_CONTAINER_MB)
  /\ Has(configurations.num, DAEMON_CONTAINER_MB_COPY)
  /\ configurations.num[DAEMON_CONTAINER_MB] # configurations.num[DAEMON_CONTAINER_MB_COPY]
  /\ configurations.num[DAEMON_CONTAINER_MB_COPY] = services.num[DAEMON_CONTAINER_MB]
  /\ configurations.num[DAEMON_CONTAINER_MB_COPY] = 20480

-----------------------------------------------------------------------------
(* One step per queue update                                               *)

-----------------------------------------------------------------------------
(* The queue manager and the selected queue                                *)

\* C24 as stated: with exactly the two queues 'default' and 'llap' below root
\* and a selected queue other than 'llap', checkAndManageLlapQueue leaves the
\* queue tree and hive.llap.daemon.queue.name as they are.
C24_AsStated ==
  ( /\ CycleDone /\ FeatureOn
    /\ InputLeaves = {"default", "llap"}
    /\ Has(services.str, DAEMON_QUEUE_NAME)
    /\ services.str[DAEMON_QUEUE_NAME] # LLAP_QUEUE_NAME ) =>
      /\ ~EmittedCapSched
      /\ ~Has(configurations.str, DAEMON_QUEUE_NAME)

\* 'default' is the selected queue, 'llap' runs at 30 and 50 is requested:
\* the cycle writes llap 50, default 50 and selects 'llap'
C24_Witness ==
  /\ CycleDone /\ FeatureOn /\ RunningCase
  /\ services.str[DAEMON_QUEUE_NAME] = "default"
  /\ CapacityOf(InputTree, "llap") = 30
  /\ EmittedCapSched
  /\ CapacityOf(EmittedTree, "llap") = 50
  /\ CapacityOf(EmittedTree, "default") = 50
  /\ Has(configurations.str, DAEMON_QUEUE_NAME)
  /\ configurations.str[DAEMON_QUEUE_NAME] = LLAP_QUEUE_NAME

-----------------------------------------------------------------------------
(* Visibility of the capacity slider                                       *)

SliderVisible == <<"hive-interactive-env", "llap_queue_capacity", "visible">>

-----------------------------------------------------------------------------
(* The validation and the sizing engine                                    *)

\* the validation of hive-interactive-site finds the capacity of the selected
\* queue in the tree and reports no capacity error for it
NoCapacityError ==
  /\ Has(InputTree, <<SelectedQueue, "capacity">>)
  /\ LET result == validateHiveInteractiveSiteConfigurations(
                     services, StartConfigurations, hosts)
     IN  /\ result.ok
         /\ \A item \in result.v : "required" \notin DOMAIN item

\* C26 as stated: with positive cluster facts and automatic concurrency, when
\* the capacity of the selected queue is at least the minimum required
\* percentage (the validation reports no capacity error) and the queue is
\* RUNNING, updateLlapConfigs, once a tracked field changed, writes the
\* computed plan and not the fallback.
C26_AsStated ==
  ( /\ EngineDone /\ EngineStarts /\ SelectedQueueRuns
    /\ hosts.items > 0 /\ hosts.nodemanagers > 0
    /\ {YARN_NM_MEM, YARN_NM_VCORES, HIVE_TEZ_CONTAINER} \subseteq DOMAIN services.num
    /\ TrackedChanged(services) /\ SESSIONS_PER_QUEUE \notin services.changed
    /\ NoCapacityError ) =>
      /\ outcome = "returned"
      /\ Has(configurations.num, TEZ_AM_MEMORY)
      /\ configurations.num[NUM_LLAP_NODES] >= 1

\* queue 'llap' runs at 30 percent of two nodes of 6144 MB, 25 percent are
\* required and llap_queue_capacity is 5: the validation has no capacity
\* error, the engine sizes the queue by the 5 percent and writes the fallback
C26_Witness ==
  /\ EngineDone /\ outcome = "returned"
  /\ SelectedQueue = "llap" /\ SelectedQueueRuns
  /\ CapacityOf(InputTree, "llap") = 30
  /\ hosts.nodemanagers = 2 /\ hosts.items = 2
  /\ services.num[YARN_NM_MEM] = 6144
  /\ pending = EmptyStore
  /\ min_queue_perc_reqd_for_llap_and_hive_app(services, hosts, StartConfigurations).v = 25
  /\ Has(services.num, LLAP_QUEUE_CAPACITY)
  /\ services.num[LLAP_QUEUE_CAPACITY] = 5
  /\ LLAP_QUEUE_CAPACITY \in services.changed
  /\ NoCapacityError
  /\ DefaultPlanEmitted
  /\ ~Has(configurations.num, TEZ_AM_MEMORY)

-----------------------------------------------------------------------------
(* The plan and its queue                                                  *)

\* C27: every fully computed plan fits in its queue: the daemons
\* (num_llap_nodes * hive.llap.daemon.yarn.container.mb), the Tez AMs
\* (tez.am.resource.memory.mb * concurrency) and the Slider AM together take
\* no more than the size of the queue, in both branches of the node count.
C27_PlanFitsQueue ==
  (EngineDone /\ outcome = "returned" /\ Has(configurations.num, TEZ_AM_MEMORY)) =>
    LET concurrency == IF Has(configurations.num, SESSIONS_PER_QUEUE)
                       THEN configurations.num[SESSIONS_PER_QUEUE]
                       ELSE services.num[SESSIONS_PER_QUEUE]
    IN  configurations.num[NUM_LLAP_NODES] * configurations.num[DAEMON_CONTAINER_MB]
          + configurations.num[TEZ_AM_MEMORY] * concurrency
          + configurations.num[SLIDER_AM_SIZE]
        <= TotalQueueMb

\* the branch below one node: one daemon of 1024 MB, one Tez AM of 1024 and the
\* Slider AM of 1024 fill the queue of 3072 MB exactly
C27_Witness ==
  /\ EngineDone /\ outcome = "returned" /\ Has(configurations.num, TEZ_AM_MEMORY)
  /\ services.num[YARN_NM_MEM] = 6144
  /\ configurations.num[NUM_LLAP_NODES] = 1
  /\ configurations.num[DAEMON_CONTAINER_MB] = 1024
  /\ configurations.num[TEZ_AM_MEMORY] = 1024
  /\ configurations.num[SESSIONS_PER_QUEUE] = 1
  /\ configurations.num[SLIDER_AM_SIZE] = 1024
  /\ TotalQueueMb = 3072

-----------------------------------------------------------------------------
(* The plan and its cluster                                                *)

\* C28 as stated: in every fully computed plan num_llap_nodes is at least 1
\* and at most the number of NodeManager hosts, and
\* hive.llap.daemon.yarn.container.mb is at most the memory of a node, for
\* every llap_queue_capacity the engine accepts, a persisted value above 100
\* among them.
C28_AsStated ==
  PlanWritten =>
    /\ configurations.num[NUM_LLAP_NODES] >= 1
    /\ configurations.num[NUM_LLAP_NODES] <= hosts.nodemanagers
    /\ configurations.num[DAEMON_CONTAINER_MB] <= services.num[YARN_NM_MEM]

\* llap_queue_capacity 150 is persisted on ten NodeManagers of 20480 MB: the
\* queue manager writes 20 to the pending view, the engine sizes the plan by
\* the persisted 150 and recommends 11 daemons of 20480 MB
C28_Witness ==
  /\ PlanWritten
  /\ hosts.nodemanagers = 10
  /\ services.num[YARN_NM_MEM] = 20480
  /\ services.num[LLAP_QUEUE_CAPACITY] = 150
  /\ Has(configurations.num, LLAP_QUEUE_CAPACITY)
  /\ configurations.num[LLAP_QUEUE_CAPACITY] = 20
  /\ configurations.num[NUM_LLAP_NODES] = 11
  /\ configurations.num[DAEMON_CONTAINER_MB] = 20480

-----------------------------------------------------------------------------
(* The queue manager run twice                                             *)

\* C29: the queue manager is idempotent.  When a cycle wrote
\* capacity-scheduler properties (an enable, adjust, resume or stop
\* transition) and its output was saved, the next cycle, run on the saved
\* state with the same requested percentage and feature flag, writes no
\* capacity-scheduler property.
C29_QueueManagerIdempotent ==
  [][ (lastOp = "persist" /\ EmittedCapSched /\ lastOp' = "recommend") =>
        ~EmittedCapSched' ]_vars

\* the second cycle after a saved adjustment from 30 to 50: the persisted
\* tree has llap RUNNING at 50, 50 is requested, nothing is written
C29_Witness ==
  /\ CycleDone /\ outcome = "returned" /\ steps = 3
  /\ services.changed = {}
  /\ FeatureOn /\ InputLeaves = {"default", "llap"}
  /\ InputTree[<<"llap", "state">>] = "RUNNING"
  /\ CapacityOf(InputTree, "llap") = 50
  /\ CapacityOf(InputTree, "default") = 50
  /\ Requested = 50
  /\ ~EmittedCapSched

-----------------------------------------------------------------------------
(* Stop and enable again                                                   *)

\* C30 as stated: from 'default' and 'llap' RUNNING at p = 30, after a stop
\* cycle that was saved (llap STOPPED, 'default' selected) the cycle that
\* enables the feature again with the same p restores llap RUNNING with
\* capacity = maximum-capacity = p and default with capacity =
\* maximum-capacity = 100 - p, leaves every other queue property with the
\* value it had, and selects 'llap' again.
C30_AsStated ==
  ( /\ CycleDone /\ outcome = "returned" /\ ResumeCase
    /\ SelectedQueue = "default" /\ Requested = 30 ) =>
      /\ EmittedCapSched
      /\ LET restored == IF configurations.capSched.blob # <<>> THEN EmittedTree
                         ELSE Merge(InputTree, EmittedTree)
         IN  /\ restored[<<"llap", "state">>] = "RUNNING"
             /\ restored[<<"llap", "capacity">>] = "30"
             /\ restored[<<"llap", "maximum-capacity">>] = "30"
             /\ restored[<<"default", "capacity">>] = "70"
             /\ restored[<<"default", "maximum-capacity">>] = "70"
             /\ \A prop \in { name \in DOMAIN InputTree : StartsWithYarn(name) }
                    \ { <<"llap", "state">>, <<"llap", "capacity">>,
                        <<"llap", "maximum-capacity">>, <<"default", "capacity">>,
                        <<"default", "maximum-capacity">> } :
                  Has(restored, prop) /\ restored[prop] = InputTree[prop]
      /\ Has(configurations.str, DAEMON_QUEUE_NAME)
      /\ configurations.str[DAEMON_QUEUE_NAME] = LLAP_QUEUE_NAME

\* the operator had set the ordering policy of 'llap' to fair; the queue was
\* stopped and the stop kept the policy; the cycle that enables the feature
\* again restores the capacities 30 and 70 and writes the policy fifo
C30_Witness ==
  /\ CycleDone /\ outcome = "returned" /\ ResumeCase /\ steps = 3
  /\ SelectedQueue = "default" /\ Requested = 30
  /\ InputTree[<<"llap", "ordering-policy">>] = "fair"
  /\ EmittedCapSched
  /\ EmittedTree[<<"llap", "ordering-policy">>] = "fifo"
  /\ EmittedTree[<<"llap", "state">>] = "RUNNING"
  /\ EmittedTree[<<"llap", "capacity">>] = "30"
  /\ EmittedTree[<<"default", "capacity">>] = "70"
  /\ configurations.str[DAEMON_QUEUE_NAME] = LLAP_QUEUE_NAME

=============================================================================
